---- MODULE Spec2Model ----
(***************************************************************************)
(* The audio generation and caching pipeline of api/audio.py as a state   *)
(* machine: the path-keyed lock registry (file_lock over asyncio.Lock),   *)
(* the segment generator get_or_generate_audio with its retry loop and    *)
(* API_SEMAPHORE, the chunk task generate_chunk_audio and the full-track  *)
(* build generate_or_get_full_audio, all running as coroutines of one     *)
(* asyncio event loop over a remote blob store and a synthesis provider.  *)
(***************************************************************************)
EXTENDS Integers, Sequences, FiniteSets, TLC

VARIABLES
    task,           \* per coroutine: position and local variables
    fut,            \* per coroutine: state of its future in Lock._waiters
    file_locks,     \* audio.py file_locks: audio path -> lock object (NoLock: no entry)
    locks,          \* the asyncio.Lock objects: _locked, _waiters
    store,          \* the blob store: storage key -> bytes (the domain is the set of keys present)
    API_SEMAPHORE,  \* audio.py API_SEMAPHORE._value
    running,        \* the coroutine inside a blocking provider call (0: the loop is free)
    faults,         \* failures the provider and the blob store may still inject
    quota,          \* requests that may still arrive, per kind
    rate_limit_data,    \* audio.py rate_limit_data: calls and window_start
    RATE_LIMIT_CALLS,   \* audio.py RATE_LIMIT_CALLS, read from the environment at import
    now,            \* time.time(), in seconds since the import of audio.py
    page_file,      \* the markdown file of the page on disk: title, description, body
    page_cache,     \* _content.py lru_cache of _page for the page's path (None: no entry)
    split_calls,    \* the calls of split_content_into_chunks so far: file read, result
    image_task,     \* per serve_image request: position, slug, future, status
    ctx_has_locks,  \* _images.py: whether app.ctx has an attribute locks
    ctx_locks       \* _images.py app.ctx.locks: slug -> asyncio.Lock (made: the key is present)

vars == <<task, fut, file_locks, locks, store, API_SEMAPHORE, running, faults, quota,
          rate_limit_data, RATE_LIMIT_CALLS, now, page_file, page_cache, split_calls,
          image_task, ctx_has_locks, ctx_locks>>

\* The state of the rate limiter and the clock.
rate_vars == <<rate_limit_data, RATE_LIMIT_CALLS, now>>

\* The page on disk, its memoized parse and the splits made of it.
page_vars == <<page_file, page_cache, split_calls>>

\* The state of the image server.
image_vars == <<image_task, ctx_has_locks, ctx_locks>>

----------------------------------------------------------------------------
(* Bounds of the model *)

MaxRequests == 3        \* requests arriving under Spec
MaxFaults == 3          \* injected failures under Spec and FairSpec
MaxTargets == 2         \* chunks of "guide" that segment requests ask for under Spec
MaxFairRequests == 2    \* requests arriving under FairSpec
MaxBuilds == 1          \* full-track and generate_all requests arriving under SpecBuild
MaxBuildSegments == 1   \* segment requests arriving under SpecBuild
MaxBuildFaults == 1     \* injected failures under SpecBuild
MaxTicks == 2           \* windows the clock may pass under SpecSite
MaxSiteSegments == 1    \* segment requests arriving under SpecSite
MaxSiteBuilds == 2      \* full-track requests arriving under SpecSite
MaxSiteMetadata == 1    \* metadata requests arriving under SpecSite
MaxSiteFaults == 1      \* injected failures under SpecSite
SiteRateLimitCalls == 1 \* the value of RATE_LIMIT_CALLS in the environment under SpecSite
MaxStorageCalls == 2    \* read_file and write_file calls under SpecStorage
MaxElapses == 3         \* half windows the clock may pass under SpecLimiter
MaxLimiterSegments == 2 \* segment requests arriving under SpecLimiter
MaxLimiterMetadata == 2 \* metadata requests arriving under SpecLimiter
MaxLimiterFaults == 1   \* injected failures under SpecLimiter
LimiterRateLimitCalls == 2  \* the value of RATE_LIMIT_CALLS in the environment under SpecLimiter
MaxLines == 3           \* lines of the body of a page under SpecSplit
MaxSplits == 2          \* requests that split the page under SpecSplit
MaxEdits == 1           \* edits of the page's file under SpecSplit
MaxTrackBuilds == 1     \* full-track requests arriving under SpecTrack
MaxTrackFaults == 1     \* injected failures under SpecTrack
MaxTrackSegments == 2   \* segment requests arriving under SpecTrack
MaxFairBuilds == 2      \* full-track and generate_all requests arriving under FairBuildSpec
MaxFairSegments == 1    \* segment requests arriving under FairBuildSpec
MaxFairBuildFaults == 1 \* injected failures under FairBuildSpec
MaxImageRequests == 3   \* serve_image requests arriving under SpecImage

NoLock == 0
NoCaller == 0

----------------------------------------------------------------------------
(* Program constants *)

SemaphoreSlots == 3
max_retries == 3
InitialRetryDelay == 1
HTTP_200_OK == 200
HTTP_404_NOT_FOUND == 404
HTTP_429_TOO_MANY_REQUESTS == 429
HTTP_500_INTERNAL_SERVER_ERROR == 500
HTTP_503_SERVICE_UNAVAILABLE == 503
API_KEY == TRUE
DefaultRateLimitCalls == 60
RATE_LIMIT_WINDOW == 60

----------------------------------------------------------------------------
(* Paths. A path is the sequence of its components.                        *)

ContentDir == <<"srv", "content">>

Pages == {"guide", "notes", "blank"}

MdName(slug) ==
    CASE slug = "guide" -> "guide.md" [] slug = "notes" -> "notes.md"
      [] slug = "echo" -> "echo.md" [] OTHER -> "blank.md"
FullName(slug) ==
    CASE slug = "guide" -> "guide_full.mp3" [] slug = "notes" -> "notes_full.mp3"
      [] slug = "echo" -> "echo_full.mp3" [] OTHER -> "blank_full.mp3"
Mp3Name(checksum) ==
    CASE checksum = "c1" -> "c1.mp3" [] checksum = "c2" -> "c2.mp3"
      [] checksum = "c3" -> "c3.mp3" [] checksum = "c5" -> "c5.mp3" [] OTHER -> "c4.mp3"

PagePath(slug) == ContentDir \o <<slug, MdName(slug)>>

\* The chunks split_content_into_chunks gives for a page: "guide" has an
\* intro and two sections, "notes" has no heading, "blank" has an empty body
\* and so no chunk; "echo" has two sections with the same clean text, and
\* so the same checksum, and no intro.
PageChunks(slug) ==
    CASE slug = "guide" -> << [id |-> "intro", checksum |-> "c1"],
                              [id |-> "section_0", checksum |-> "c2"],
                              [id |-> "section_1", checksum |-> "c3"] >>
      [] slug = "notes" -> << [id |-> "full_content", checksum |-> "c4"] >>
      [] slug = "echo" -> << [id |-> "section_0", checksum |-> "c5"],
                             [id |-> "section_1", checksum |-> "c5"] >>
      [] OTHER -> << >>

get_audio_dir(content_path) ==
    SubSeq(content_path, 1, Len(content_path) - 1) \o <<"audio">>

get_audio_path(audio_dir, checksum) == Append(audio_dir, Mp3Name(checksum))

get_full_audio_path(audio_dir, page_slug) == Append(audio_dir, FullName(page_slug))

\* os.path.relpath of a path under the content directory, with "audio"
\* inserted before the file name when no component is "audio".
get_storage_path(file_path) ==
    LET parts == SubSeq(file_path, Len(ContentDir) + 1, Len(file_path))
    IN  IF \E i \in 1..Len(parts) : parts[i] = "audio"
        THEN parts
        ELSE SubSeq(parts, 1, Len(parts) - 1) \o <<"audio", parts[Len(parts)]>>

\* The audio path of the i-th chunk of a page.
ChunkPath(slug, i) ==
    get_audio_path(get_audio_dir(PagePath(slug)), PageChunks(slug)[i].checksum)

ChunkPaths ==
    UNION { { ChunkPath(s, i) : i \in 1..Len(PageChunks(s)) } : s \in Pages }

FullPath(slug) == get_full_audio_path(get_audio_dir(PagePath(slug)), slug)

FullPaths == { FullPath(s) : s \in Pages }

\* The page whose sections repeat, and its audio paths.
EchoPages == {"echo"}
EchoPaths ==
    { ChunkPath("echo", i) : i \in 1..Len(PageChunks("echo")) } \cup { FullPath("echo") }

\* Coroutines: every request and, for a build, one task per chunk.
BuildCallers == MaxBuilds * (1 + Len(PageChunks("guide"))) + MaxBuildSegments
SiteCallers ==
    MaxSiteBuilds * (1 + Len(PageChunks("notes"))) + MaxSiteSegments + MaxSiteMetadata
Largest(a, b) == IF a > b THEN a ELSE b
LimiterCallers == MaxLimiterSegments + MaxLimiterMetadata
TrackCallers == MaxTrackBuilds * (1 + Len(PageChunks("echo"))) + MaxTrackSegments
NumCallers ==
    Largest(Largest(Largest(MaxRequests, LimiterCallers), Largest(BuildCallers, SiteCallers)),
            TrackCallers)

Callers == 1..NumCallers
LockIds == 1..NumCallers

AudioPaths == ChunkPaths \cup FullPaths \cup EchoPaths

----------------------------------------------------------------------------
(* Bytes are sequences; the provider answers with one of these bodies or   *)
(* raises.                                                                 *)

Empty == << >>
ProviderBodies == { Empty, <<1>>, <<2>> }

----------------------------------------------------------------------------
(* Coroutines *)

\* kind: the coroutine function ("segment": get_or_generate_audio, "chunk":
\* generate_chunk_audio, "full": generate_or_get_full_audio, "generate_all":
\* get_page_audio_impl with generate_all, "metadata": get_audio_metadata,
\* "rejected": a request answered by rate_limiter); path: its audio path;
\* lock: the local variable lock of file_lock; parent: the coroutine that
\* gathers it; calls and slept record the provider calls made and the delays
\* slept; status: the status code of the response once it is started (0: no
\* response started); has_audio: the has_audio flags of a metadata answer;
\* responses: what the blob store answered to each attempt of a read_file or
\* write_file call ("read_file" and "write_file" are kinds too).
IdleTask ==
    [ pc |-> "idle", kind |-> "none", path |-> << >>, lock |-> NoLock,
      attempt |-> 0, retry_delay |-> 0, audio_bytes |-> Empty, err |-> 0,
      calls |-> 0, slept |-> << >>,
      page |-> "", idx |-> 0, pending |-> {}, all_audio |-> Empty, size |-> 0,
      parent |-> NoCaller, status |-> 0, has_audio |-> << >>, responses |-> << >> ]

\* Positions between lock.acquire() returning and the finally block of file_lock.
CriticalPcs ==
    {"read", "call", "sleep", "write", "yielded", "check", "gather", "verify", "concat"}

InCriticalSection(r) == task[r].lock # NoLock /\ task[r].pc \in CriticalPcs

\* The loop of a provider client whose call is awaited: it is never blocked.
LoopNeverBlocked == TRUE

\* The event loop runs one coroutine at a time; client.text_to_speech.convert
\* is a synchronous call, so no other coroutine runs until it returns.
LoopFree == running = NoCaller

\* New coroutines take the smallest unused index.
NextCaller(r) ==
    /\ task[r].pc = "idle"
    /\ \A q \in Callers : q < r => task[q].pc # "idle"

----------------------------------------------------------------------------
(* asyncio.Lock and file_lock *)

NewLock == [ locked |-> FALSE, waiters |-> << >>, owner |-> NoCaller ]

\* A lock object no coroutine refers to (file_locks refers only to locks
\* some coroutine refers to).
FreshLock ==
    LET free == { l \in LockIds : \A r \in Callers : task[r].lock # l }
    IN  CHOOSE l \in free : \A m \in free : l <= m

Remove(ws, r) == SelectSeq(ws, LAMBDA x : x # r)

\* A release that wakes no waiter.
NoWakeUp(ws, f) == f

\* Lock._wake_up_first: set the result of the first waiter's future unless
\* that future is already done (woken or cancelled).
wake_up_first(ws, f) ==
    IF ws # << >> /\ f[Head(ws)] = "pending"
    THEN [f EXCEPT ![Head(ws)] = "done"]
    ELSE f

\* An acquire that returns at once whatever the state of the lock.
AcquireWithoutWaiting(lk) == TRUE

\* Lock.acquire without suspension: unlocked and every waiter cancelled.
CanTake(lk) ==
    /\ ~lk.locked
    /\ \A i \in 1..Len(lk.waiters) : fut[lk.waiters[i]] = "cancelled"

\* Lock.release, before the wake-up.
Release(lk) == [lk EXCEPT !.locked = FALSE, !.owner = NoCaller]

\* A finally block that does not release.
LockKept(lk) == lk

\* file_lock, lines 137-138: if lock.locked(): lock.release()
LockAfterFinally(lk) == IF lk.locked THEN Release(lk) ELSE lk

\* A finally block that leaves the entry in the registry.
RegistryKept(lk, file_path) == file_locks

\* file_lock, lines 140-141: the registry after the finally block.
RegistryAfterFinally(lk, file_path) ==
    IF ~lk.locked THEN [file_locks EXCEPT ![file_path] = NoLock] ELSE file_locks

\* file_lock up to the first suspension of r, whose task record becomes t:
\* get or create the lock of t.path, then lock.acquire().
file_lock_enter(r, t) ==
    LET l == IF file_locks[t.path] = NoLock THEN FreshLock ELSE file_locks[t.path]
    IN  /\ file_locks' = [file_locks EXCEPT ![t.path] = l]
        /\ IF CanTake(locks[l])
           THEN /\ locks' = [locks EXCEPT ![l].locked = TRUE, ![l].owner = r]
                /\ fut' = fut
                /\ task' = [task EXCEPT ![r] = [t EXCEPT !.lock = l, !.pc = "read"]]
           ELSE /\ locks' = [locks EXCEPT ![l].waiters = Append(@, r)]
                /\ fut' = [fut EXCEPT ![r] = "pending"]
                /\ task' = [task EXCEPT ![r] = [t EXCEPT !.lock = l, !.pc = "waiting"]]

\* The finally block of file_lock run by r, whose task record becomes t;
\* lk and f are r's lock object and the futures when the block starts.
file_lock_exit(r, t, lk, f) ==
    LET l == task[r].lock
        after == LockAfterFinally(lk)
    IN  /\ locks' = [locks EXCEPT ![l] = after]
        /\ fut' = IF lk.locked /\ ~after.locked THEN wake_up_first(after.waiters, f) ELSE f
        /\ file_locks' = RegistryAfterFinally(after, t.path)
        /\ task' = [task EXCEPT ![r] = [t EXCEPT !.lock = NoLock]]

\* r leaves the critical section it is in.
LeaveCriticalSection(r, t) == file_lock_exit(r, t, locks[task[r].lock], fut)

\* A waiter woken by release() resumes in lock.acquire(): it removes its
\* future, sets _locked and enters the critical section.
AcquireResume(r) ==
    /\ LoopFree
    /\ task[r].pc = "waiting"
    /\ fut[r] = "done"
    /\ locks' = [locks EXCEPT ![task[r].lock] =
                    [@ EXCEPT !.waiters = Remove(@, r), !.locked = TRUE, !.owner = r]]
    /\ fut' = [fut EXCEPT ![r] = "none"]
    /\ task' = [task EXCEPT ![r].pc = "read"]
    /\ UNCHANGED <<file_locks, store, API_SEMAPHORE, running, faults, quota, rate_vars, page_vars, image_vars>>

\* A cancelled waiter resumes in lock.acquire() with CancelledError: it
\* removes its future, wakes the next waiter if the lock is free, and the
\* error propagates through the finally block of file_lock.
AcquireCancelled(r) ==
    /\ LoopFree
    /\ task[r].pc = "waiting"
    /\ fut[r] \in {"cancelled", "done_cancel"}
    /\ LET lk0 == [locks[task[r].lock] EXCEPT !.waiters = Remove(@, r)]
           f0 == [fut EXCEPT ![r] = "none"]
           f1 == IF ~lk0.locked THEN wake_up_first(lk0.waiters, f0) ELSE f0
       IN  file_lock_exit(r, [task[r] EXCEPT !.pc = "cancelled"], lk0, f1)
    /\ UNCHANGED <<store, API_SEMAPHORE, running, faults, quota, rate_vars, page_vars, image_vars>>

----------------------------------------------------------------------------
(* The blob store (StorageClient) *)

Present(key) == key \in DOMAIN store

\* The store after a PUT of data at key answered with 200.
Written(key, data) ==
    [k \in DOMAIN store \cup {key} |-> IF k = key THEN data ELSE store[k]]

\* What storage.read_file(key) can give: the body of a 200 response, or
\* StorageError (404 when the key is absent; retries exhausted or another
\* status when the store fails, which uses up one fault).
ReadOutcomes(key) ==
    IF Present(key)
    THEN { [ok |-> TRUE, body |-> store[key], fault |-> 0] }
         \cup (IF faults > 0
               THEN { [ok |-> FALSE, body |-> Empty, fault |-> 1] }
               ELSE { })
    ELSE { [ok |-> FALSE, body |-> Empty, fault |-> 0] }

\* What the provider call can give: a body (possibly empty) or an exception.
\* An empty body and an exception each use up one fault.
ProviderOutcomes ==
    { [raised |-> FALSE, body |-> b, fault |-> IF b = Empty THEN 1 ELSE 0] :
        b \in { b \in ProviderBodies : b # Empty \/ faults > 0 } }
    \cup (IF faults > 0
          THEN { [raised |-> TRUE, body |-> Empty, fault |-> 1] }
          ELSE { })

----------------------------------------------------------------------------
(* StorageClient.read_file and write_file, attempt by attempt *)

DEFAULT_RETRY_ATTEMPTS == 3
DEFAULT_RETRY_DELAY == 1

\* httpx.RequestError in the place of a status code.
RequestError == 0

\* What one attempt can meet: a status code, or httpx.RequestError.
StoreResponses == {200, 400, 401, 404, 413, 500, 503, RequestError}

StorageOps == {"read_file", "write_file"}

\* The key and the data of the calls under SpecStorage.
StorageKey == get_storage_path(ChunkPath("notes", 1))
StorageData == <<1>>

\* 2 to the power n.
RECURSIVE Pow2(_)
Pow2(n) == IF n = 0 THEN 1 ELSE 2 * Pow2(n - 1)

\* Lines 109 and 124 (176 and 191): the delay slept after attempt.
RetryDelay(attempt) == DEFAULT_RETRY_DELAY * Pow2(attempt)

\* A client for which no answer is worth another attempt.
NeverTransient(resp) == FALSE

\* Lines 107 and 122 (174 and 189): the answers that lead to another attempt.
IsTransient(resp) == resp \in {503, RequestError}

\* Lines 108 and 123 (175 and 190): the attempt is not the last one.
AttemptsLeft(attempt) == attempt < DEFAULT_RETRY_ATTEMPTS - 1

\* The answers the store can give to an attempt: a read of an absent key is
\* not answered 200, and a read of a present key is not answered 404.
PossibleResponses(op) ==
    IF op = "write_file" THEN StoreResponses
    ELSE IF Present(StorageKey) THEN StoreResponses \ {404}
    ELSE StoreResponses \ {200}

\* A coroutine calls read_file or write_file: the loop of line 92 (157)
\* starts and the first request is sent.
StorageCall(r, op) ==
    /\ LoopFree
    /\ NextCaller(r)
    /\ quota.storage > 0
    /\ quota' = [quota EXCEPT !.storage = @ - 1]
    /\ task' = [task EXCEPT ![r] =
            [IdleTask EXCEPT !.pc = "request", !.kind = op, !.attempt = 0]]
    /\ UNCHANGED <<fut, file_locks, locks, store, API_SEMAPHORE, running, faults, rate_vars, page_vars, image_vars>>

\* The request of the current attempt is answered (lines 95-126, 160-193):
\* 200 returns; 503 or RequestError on an attempt that is not the last
\* sleeps and continues; anything else raises StorageError. The store holds
\* the data after a PUT answered 200; a PUT that met a RequestError may or
\* may not have reached it.
StorageResponse(r) ==
    /\ LoopFree
    /\ task[r].kind \in StorageOps
    /\ task[r].pc = "request"
    /\ \E resp \in PossibleResponses(task[r].kind) :
        LET t == [task[r] EXCEPT !.responses = Append(@, resp), !.calls = @ + 1]
        IN  /\ IF resp = 200
               THEN task' = [task EXCEPT ![r] =
                        [t EXCEPT !.pc = "done",
                                  !.audio_bytes = IF t.kind = "read_file"
                                                  THEN store[StorageKey] ELSE @]]
               ELSE IF IsTransient(resp) /\ AttemptsLeft(t.attempt)
               THEN task' = [task EXCEPT ![r] =
                        [t EXCEPT !.pc = "sleep",
                                  !.slept = Append(@, RetryDelay(t.attempt))]]
               ELSE task' = [task EXCEPT ![r] = [t EXCEPT !.pc = "failed"]]
            /\ IF task[r].kind = "write_file" /\ resp = 200
               THEN store' = Written(StorageKey, StorageData)
               ELSE IF task[r].kind = "write_file" /\ resp = RequestError
               THEN store' \in {store, Written(StorageKey, StorageData)}
               ELSE store' = store
    /\ UNCHANGED <<fut, file_locks, locks, API_SEMAPHORE, running, faults, quota, rate_vars, page_vars, image_vars>>

\* asyncio.sleep returns and the loop continues with the next attempt.
StorageSleepDone(r) ==
    /\ LoopFree
    /\ task[r].kind \in StorageOps
    /\ task[r].pc = "sleep"
    /\ task' = [task EXCEPT ![r].pc = "request", ![r].attempt = @ + 1]
    /\ UNCHANGED <<fut, file_locks, locks, store, API_SEMAPHORE, running, faults, quota,
                   rate_vars, page_vars, image_vars>>

----------------------------------------------------------------------------
(* rate_limiter, the http middleware of the audio app *)

\* Lines 86-88: the counter and window a request arriving now is checked
\* against; a window that has elapsed is replaced.
CurrentWindow ==
    IF now - rate_limit_data.window_start > RATE_LIMIT_WINDOW
    THEN [calls |-> 0, window_start |-> now]
    ELSE rate_limit_data

\* A limiter that passes every request on.
AlwaysAdmitted == TRUE

\* Line 91, negated: the request is passed on to its handler.
Admitted == CurrentWindow.calls < RATE_LIMIT_CALLS

\* Lines 86-99 for a request that is passed on: the counter counts it.
Admit ==
    /\ Admitted
    /\ rate_limit_data' = [CurrentWindow EXCEPT !.calls = @ + 1]
    /\ UNCHANGED <<RATE_LIMIT_CALLS, now>>

\* The kinds of request that arrive.
RequestKinds == {"segments", "builds", "metadata"}

\* Lines 86-95: a request that arrives when the counter has reached
\* RATE_LIMIT_CALLS is answered with 429 and its handler does not run.
RateLimited(r) ==
    /\ LoopFree
    /\ NextCaller(r)
    /\ ~Admitted
    /\ \E k \in RequestKinds :
        /\ quota[k] > 0
        /\ quota' = [quota EXCEPT ![k] = @ - 1]
    /\ rate_limit_data' = CurrentWindow
    /\ task' = [task EXCEPT ![r] = [IdleTask EXCEPT !.pc = "done", !.kind = "rejected",
                                        !.status = HTTP_429_TOO_MANY_REQUESTS]]
    /\ UNCHANGED <<fut, file_locks, locks, store, API_SEMAPHORE, running, faults,
                   RATE_LIMIT_CALLS, now, page_vars, image_vars>>

\* Time passes: the clock advances by the length of a window and a second.
Tick ==
    /\ now < MaxTicks * (RATE_LIMIT_WINDOW + 1)
    /\ now' = now + RATE_LIMIT_WINDOW + 1
    /\ UNCHANGED <<task, fut, file_locks, locks, store, API_SEMAPHORE, running, faults,
                   quota, rate_limit_data, RATE_LIMIT_CALLS, page_vars, image_vars>>

----------------------------------------------------------------------------
(* get_or_generate_audio *)

\* Lines 360-361.
RetryStart(t) == [t EXCEPT !.attempt = 0, !.retry_delay = InitialRetryDelay]

\* A delay that does not grow.
SameRetryDelay(d) == d

\* Line 395: retry_delay *= 2.
NextRetryDelay(d) == d * 2

\* Line 389: the attempt just failed is not the last one.
MayRetry(attempt) == attempt < max_retries - 1

\* A check of the provider's answer that looks only for an exception.
ProviderRaised(o) == o.raised

\* Lines 382-383 and 553-554: the provider's answer is a failure.
ProviderFailed(o) == o.raised \/ Len(o.body) = 0

\* The status get_or_generate_audio raises when the last attempt failed:
\* line 398 re-raises the provider's exception (or the ValueError of line
\* 383), which is no HTTPException, so lines 421-428 turn it into a 500.
\* The for-else of lines 399-404 is never entered: the loop body of the last
\* attempt either breaks or raises.
ExhaustedStatus == HTTP_500_INTERNAL_SERVER_ERROR

\* r ends, leaving file_lock if it is inside one.
Leave(r, t) ==
    IF task[r].lock = NoLock
    THEN /\ task' = [task EXCEPT ![r] = t]
         /\ UNCHANGED <<fut, file_locks, locks>>
    ELSE LeaveCriticalSection(r, t)

\* A segment request passes rate_limiter; get_chunk_audio returns a
\* StreamingResponse over the generator (line 764), whose status line is
\* sent before the generator is first run; the generator then starts:
\* file_lock(audio_path).
SegmentRequest(r, p) ==
    /\ LoopFree
    /\ NextCaller(r)
    /\ quota.segments > 0
    /\ quota' = [quota EXCEPT !.segments = @ - 1]
    /\ Admit
    /\ file_lock_enter(r, [IdleTask EXCEPT !.kind = "segment", !.path = p,
                                           !.status = HTTP_200_OK])
    /\ UNCHANGED <<store, API_SEMAPHORE, running, faults, page_vars, image_vars>>

\* Semaphore.release, on leaving "async with API_SEMAPHORE" (line 365).
SemaphoreRelease(value) == value + 1

\* One pass of lines 363-372 up to the provider call: take a slot of
\* API_SEMAPHORE and call convert. (With no slot free the coroutine would
\* wait in API_SEMAPHORE.acquire(): the step is not enabled.)
BeginAttempt(r, t) ==
    /\ API_SEMAPHORE > 0
    /\ API_SEMAPHORE' = API_SEMAPHORE - 1
    /\ running' = r
    /\ task' = [task EXCEPT ![r] = [t EXCEPT !.pc = "call"]]

\* storage.read_file returns inside get_or_generate_audio (lines 339-345):
\* a non-empty body is yielded; an empty body or a StorageError starts the
\* generation.
SegmentReadDone(r) ==
    /\ LoopFree
    /\ task[r].kind = "segment"
    /\ task[r].pc = "read"
    /\ \E o \in ReadOutcomes(get_storage_path(task[r].path)) :
        /\ faults' = faults - o.fault
        /\ IF o.ok /\ Len(o.body) > 0
           THEN /\ task' = [task EXCEPT ![r].pc = "yielded", ![r].audio_bytes = o.body]
                /\ UNCHANGED <<API_SEMAPHORE, running>>
           ELSE /\ API_KEY
                /\ BeginAttempt(r, RetryStart(task[r]))
    /\ UNCHANGED <<fut, file_locks, locks, store, quota, rate_vars, page_vars, image_vars>>

\* The provider call of a segment request returns or raises (lines 374-398);
\* the slot is given back on both ways out of "async with API_SEMAPHORE".
SegmentProviderDone(r) ==
    /\ running = r
    /\ task[r].kind = "segment"
    /\ task[r].pc = "call"
    /\ running' = NoCaller
    /\ API_SEMAPHORE' = SemaphoreRelease(API_SEMAPHORE)
    /\ \E o \in ProviderOutcomes :
        /\ faults' = faults - o.fault
        /\ LET t == [task[r] EXCEPT !.calls = @ + 1,
                                    !.audio_bytes = IF o.raised THEN @ ELSE o.body]
           IN  IF ~ProviderFailed(o)
               THEN /\ task' = [task EXCEPT ![r] = [t EXCEPT !.pc = "write"]]
                    /\ UNCHANGED <<fut, file_locks, locks>>
               ELSE IF MayRetry(t.attempt)
               THEN /\ task' = [task EXCEPT ![r] =
                            [t EXCEPT !.pc = "sleep", !.slept = Append(@, t.retry_delay)]]
                    /\ UNCHANGED <<fut, file_locks, locks>>
               ELSE LeaveCriticalSection(r, [t EXCEPT !.pc = "failed", !.err = ExhaustedStatus])
    /\ UNCHANGED <<store, quota, rate_vars, page_vars, image_vars>>

\* asyncio.sleep(retry_delay) returns: the delay doubles and the next
\* attempt starts (lines 394-395, then 363-372).
SegmentSleepDone(r) ==
    /\ LoopFree
    /\ task[r].kind = "segment"
    /\ task[r].pc = "sleep"
    /\ BeginAttempt(r, [task[r] EXCEPT !.attempt = @ + 1,
                                       !.retry_delay = NextRetryDelay(@)])
    /\ UNCHANGED <<fut, file_locks, locks, store, faults, quota, rate_vars, page_vars, image_vars>>

\* storage.write_file returns inside get_or_generate_audio (lines 409-417):
\* a StorageError is logged and the bytes are yielded either way.
SegmentWriteDone(r) ==
    /\ LoopFree
    /\ task[r].kind = "segment"
    /\ task[r].pc = "write"
    /\ \/ /\ store' = Written(get_storage_path(task[r].path), task[r].audio_bytes)
          /\ task' = [task EXCEPT ![r].pc = "yielded"]
          /\ UNCHANGED faults
       \/ /\ faults > 0
          /\ faults' = faults - 1
          /\ task' = [task EXCEPT ![r].pc = "yielded"]
          /\ UNCHANGED store
    /\ UNCHANGED <<fut, file_locks, locks, API_SEMAPHORE, running, quota, rate_vars, page_vars, image_vars>>

\* The consumer asks for the next item: the generator runs to its end
\* (line 342, or the end of the function) and leaves file_lock.
Resume(r) ==
    /\ LoopFree
    /\ task[r].pc = "yielded"
    /\ LeaveCriticalSection(r, [task[r] EXCEPT !.pc = "done"])
    /\ UNCHANGED <<store, API_SEMAPHORE, running, faults, quota, rate_vars, page_vars, image_vars>>

\* The consumer stops reading: the generator is closed (aclose() from the
\* event loop's asynchronous generator finalizer), GeneratorExit is raised
\* at the yield and propagates through file_lock.
Close(r) ==
    /\ LoopFree
    /\ task[r].pc = "yielded"
    /\ LeaveCriticalSection(r, [task[r] EXCEPT !.pc = "closed"])
    /\ UNCHANGED <<store, API_SEMAPHORE, running, faults, quota, rate_vars, page_vars, image_vars>>

----------------------------------------------------------------------------
(* Cancellation *)

\* The task of r is cancelled while r waits in lock.acquire(): a pending
\* future is cancelled; a future already done stays done and the task is
\* marked to receive CancelledError when it resumes.
CancelWaiter(r) ==
    /\ LoopFree
    /\ task[r].pc = "waiting"
    /\ task[r].parent = NoCaller
    /\ fut[r] \in {"pending", "done"}
    /\ fut' = [fut EXCEPT ![r] = IF @ = "pending" THEN "cancelled" ELSE "done_cancel"]
    /\ UNCHANGED <<task, file_locks, locks, store, API_SEMAPHORE, running, faults, quota, rate_vars, page_vars, image_vars>>

\* The bytes of the write_file call r awaits.
WriteData(t) == IF t.kind = "full" THEN t.all_audio ELSE t.audio_bytes

\* The task of request r is cancelled while r awaits the store or sleeps
\* inside the critical section: CancelledError propagates through file_lock.
\* A write in flight may or may not have reached the store. (A request
\* awaiting gather is not cancelled in this model.)
CancelHolder(r) ==
    /\ LoopFree
    /\ task[r].pc \in {"read", "sleep", "write", "check", "verify", "concat"}
    /\ task[r].parent = NoCaller
    /\ LeaveCriticalSection(r, [task[r] EXCEPT !.pc = "cancelled"])
    /\ \/ UNCHANGED store
       \/ /\ task[r].pc = "write"
          /\ store' = Written(get_storage_path(task[r].path), WriteData(task[r]))
    /\ UNCHANGED <<API_SEMAPHORE, running, faults, quota, rate_vars, page_vars, image_vars>>

----------------------------------------------------------------------------
(* asyncio.gather over generate_chunk_audio coroutines *)

IdleCallers == { q \in Callers : task[q].pc = "idle" }

\* The number of elements of S below x.
Rank(x, S) == Cardinality({ y \in S : y < x })

Children(r) == { q \in Callers : task[q].parent = r }

\* gather(*generation_tasks) by r, whose task record becomes t: one task per
\* chunk index in pend, created in chunk order on the smallest idle indexes.
SpawnChunkTasks(r, t, slug, pend) ==
    LET idle == IdleCallers \ {r}
    IN  [ q \in Callers |->
            IF q = r THEN t
            ELSE IF q \in idle /\ Rank(q, idle) < Cardinality(pend)
            THEN LET i == CHOOSE j \in pend : Rank(j, pend) = Rank(q, idle)
                 IN  [IdleTask EXCEPT !.pc = "spawned", !.kind = "chunk",
                                      !.path = ChunkPath(slug, i), !.parent = r]
            ELSE task[q] ]

\* Tasks that are started and not awaited.
GatherNotAwaited(r) == TRUE

\* A gather that returns its tasks' exceptions instead of raising.
GatherEnded(r) == \A q \in Children(r) : task[q].pc \in {"done", "failed"}

\* The gather future of r is done: a task raised, or all have returned.
GatherRaised(r) == \E q \in Children(r) : task[q].pc = "failed"
GatherReturned(r) == \A q \in Children(r) : task[q].pc = "done"

----------------------------------------------------------------------------
(* generate_chunk_audio *)

\* A task created by gather runs its first step: file_lock(audio_path).
\* The loop starts the tasks of one gather in the order of their creation.
ChunkStart(r) ==
    /\ LoopFree
    /\ task[r].pc = "spawned"
    /\ \A q \in Callers :
        (q < r /\ task[q].parent = task[r].parent) => task[q].pc # "spawned"
    /\ file_lock_enter(r, task[r])
    /\ UNCHANGED <<store, API_SEMAPHORE, running, faults, quota, rate_vars, page_vars, image_vars>>

\* storage.read_file returns inside generate_chunk_audio (lines 528-543):
\* any body, empty or not, ends the task; a StorageError leads to the
\* provider call, made without a slot of API_SEMAPHORE.
ChunkReadDone(r) ==
    /\ LoopFree
    /\ task[r].kind = "chunk"
    /\ task[r].pc = "read"
    /\ \E o \in ReadOutcomes(get_storage_path(task[r].path)) :
        /\ faults' = faults - o.fault
        /\ IF o.ok
           THEN /\ LeaveCriticalSection(r, [task[r] EXCEPT !.pc = "done"])
                /\ UNCHANGED running
           ELSE /\ running' = r
                /\ task' = [task EXCEPT ![r].pc = "call"]
                /\ UNCHANGED <<fut, file_locks, locks>>
    /\ UNCHANGED <<store, API_SEMAPHORE, quota, rate_vars, page_vars, image_vars>>

\* The provider call of generate_chunk_audio returns or raises (lines
\* 545-558, 562-570): one attempt; a failure becomes a 500.
ChunkProviderDone(r) ==
    /\ running = r
    /\ task[r].kind = "chunk"
    /\ task[r].pc = "call"
    /\ running' = NoCaller
    /\ \E o \in ProviderOutcomes :
        /\ faults' = faults - o.fault
        /\ LET t == [task[r] EXCEPT !.calls = @ + 1,
                                    !.audio_bytes = IF o.raised THEN @ ELSE o.body]
           IN  IF ~ProviderFailed(o)
               THEN /\ task' = [task EXCEPT ![r] = [t EXCEPT !.pc = "write"]]
                    /\ UNCHANGED <<fut, file_locks, locks>>
               ELSE LeaveCriticalSection(r,
                        [t EXCEPT !.pc = "failed", !.err = HTTP_500_INTERNAL_SERVER_ERROR])
    /\ UNCHANGED <<store, API_SEMAPHORE, quota, rate_vars, page_vars, image_vars>>

\* storage.write_file returns inside generate_chunk_audio (lines 557-570):
\* a StorageError becomes a 500.
ChunkWriteDone(r) ==
    /\ LoopFree
    /\ task[r].kind = "chunk"
    /\ task[r].pc = "write"
    /\ \/ /\ store' = Written(get_storage_path(task[r].path), task[r].audio_bytes)
          /\ LeaveCriticalSection(r, [task[r] EXCEPT !.pc = "done"])
          /\ UNCHANGED faults
       \/ /\ faults > 0
          /\ faults' = faults - 1
          /\ LeaveCriticalSection(r,
                [task[r] EXCEPT !.pc = "failed", !.err = HTTP_500_INTERNAL_SERVER_ERROR])
          /\ UNCHANGED store
    /\ UNCHANGED <<API_SEMAPHORE, running, quota, rate_vars, page_vars, image_vars>>

----------------------------------------------------------------------------
(* generate_or_get_full_audio and the generate_all branch of get_page_audio_impl *)

\* The full-track request for a page passes rate_limiter and its handler
\* awaits generate_or_get_full_audio: file_lock(full_audio_path).
FullRequest(r, slug) ==
    /\ LoopFree
    /\ NextCaller(r)
    /\ quota.builds > 0
    /\ quota' = [quota EXCEPT !.builds = @ - 1]
    /\ Admit
    /\ file_lock_enter(r, [IdleTask EXCEPT !.kind = "full", !.page = slug,
                                           !.path = FullPath(slug)])
    /\ UNCHANGED <<store, API_SEMAPHORE, running, faults, page_vars, image_vars>>

\* Lines 491-499 when no chunk is left to read: write all_audio.
StartWrite(t) == [t EXCEPT !.pc = "write"]

\* storage.read_file of the full track returns (lines 447-457): any body is
\* taken as the cached track; on StorageError the page is split and the
\* first chunk is checked (with no chunk the loops of lines 463-495 are
\* empty and all_audio, still b"", is written).
FullReadDone(r) ==
    /\ LoopFree
    /\ task[r].kind = "full"
    /\ task[r].pc = "read"
    /\ \E o \in ReadOutcomes(get_storage_path(task[r].path)) :
        /\ faults' = faults - o.fault
        /\ IF o.ok
           THEN LeaveCriticalSection(r, [task[r] EXCEPT !.pc = "done", !.size = Len(o.body)])
           ELSE /\ task' = [task EXCEPT ![r] =
                    IF Len(PageChunks(task[r].page)) = 0
                    THEN StartWrite([task[r] EXCEPT !.all_audio = Empty])
                    ELSE [task[r] EXCEPT !.pc = "check", !.idx = 1]]
                /\ UNCHANGED <<fut, file_locks, locks>>
    /\ UNCHANGED <<store, API_SEMAPHORE, running, quota, rate_vars, page_vars, image_vars>>

\* storage.read_file of chunk idx returns in the loop of lines 463-472: a
\* StorageError schedules the chunk's generation. After the last chunk the
\* scheduled tasks are gathered (line 476), or the verification loop starts.
FullCheckDone(r) ==
    /\ LoopFree
    /\ task[r].kind = "full"
    /\ task[r].pc = "check"
    /\ \E o \in ReadOutcomes(get_storage_path(ChunkPath(task[r].page, task[r].idx))) :
        /\ faults' = faults - o.fault
        /\ LET pend == IF o.ok THEN task[r].pending ELSE task[r].pending \cup {task[r].idx}
               t == [task[r] EXCEPT !.pending = pend]
           IN  IF task[r].idx < Len(PageChunks(task[r].page))
               THEN task' = [task EXCEPT ![r] = [t EXCEPT !.idx = @ + 1]]
               ELSE IF pend # {}
               THEN /\ Cardinality(IdleCallers) >= Cardinality(pend)
                    /\ task' = SpawnChunkTasks(r, [t EXCEPT !.pc = "gather"], task[r].page, pend)
               ELSE task' = [task EXCEPT ![r] = [t EXCEPT !.pc = "verify", !.idx = 1]]
    /\ UNCHANGED <<fut, file_locks, locks, store, API_SEMAPHORE, running, quota, rate_vars, page_vars, image_vars>>

\* get_page_audio_impl with generate_all and no background tasks (lines
\* 865-881): one generate_chunk_audio per chunk, each chunk's has_audio set
\* to True as its task is scheduled (line 877), the tasks gathered; a page
\* without chunks is answered at once. The flags reach the caller with the
\* response of lines 888-896, after gather.
GenerateAllRequest(r, slug) ==
    /\ LoopFree
    /\ NextCaller(r)
    /\ quota.builds > 0
    /\ quota' = [quota EXCEPT !.builds = @ - 1]
    /\ Admit
    /\ LET n == Len(PageChunks(slug))
           t == [IdleTask EXCEPT !.kind = "generate_all", !.page = slug,
                                 !.has_audio = [i \in 1..n |-> TRUE]]
       IN  IF n = 0
           THEN task' = [task EXCEPT ![r] = [t EXCEPT !.pc = "done", !.status = HTTP_200_OK]]
           ELSE /\ Cardinality(IdleCallers \ {r}) >= n
                /\ task' = SpawnChunkTasks(r, [t EXCEPT !.pc = "gather"], slug, 1..n)
    /\ UNCHANGED <<fut, file_locks, locks, store, API_SEMAPHORE, running, faults, page_vars, image_vars>>

\* gather is done (line 476 or 881): it raises the HTTPException of the
\* first task that failed, while the other tasks keep running; when every
\* task has returned, the build verifies the chunks (lines 479-488) and
\* generate_all answers.
GatherDone(r) ==
    /\ LoopFree
    /\ task[r].pc = "gather"
    /\ \/ /\ GatherRaised(r)
          /\ Leave(r, [task[r] EXCEPT !.pc = "failed", !.err = HTTP_500_INTERNAL_SERVER_ERROR])
       \/ /\ GatherReturned(r)
          /\ IF task[r].kind = "full"
             THEN /\ task' = [task EXCEPT ![r].pc = "verify", ![r].idx = 1]
                  /\ UNCHANGED <<fut, file_locks, locks>>
             ELSE Leave(r, [task[r] EXCEPT !.pc = "done", !.status = HTTP_200_OK])
    /\ UNCHANGED <<store, API_SEMAPHORE, running, faults, quota, rate_vars, page_vars, image_vars>>

\* storage.read_file of chunk idx returns in the loop of lines 479-488: a
\* StorageError becomes a 500; after the last chunk the concatenation starts.
FullVerifyDone(r) ==
    /\ LoopFree
    /\ task[r].kind = "full"
    /\ task[r].pc = "verify"
    /\ \E o \in ReadOutcomes(get_storage_path(ChunkPath(task[r].page, task[r].idx))) :
        /\ faults' = faults - o.fault
        /\ IF ~o.ok
           THEN LeaveCriticalSection(r,
                    [task[r] EXCEPT !.pc = "failed", !.err = HTTP_500_INTERNAL_SERVER_ERROR])
           ELSE /\ task' = [task EXCEPT ![r] =
                    IF task[r].idx < Len(PageChunks(task[r].page))
                    THEN [task[r] EXCEPT !.idx = @ + 1]
                    ELSE [task[r] EXCEPT !.pc = "concat", !.idx = 1, !.all_audio = Empty]]
                /\ UNCHANGED <<fut, file_locks, locks>>
    /\ UNCHANGED <<store, API_SEMAPHORE, running, quota, rate_vars, page_vars, image_vars>>

\* Line 495: all_audio += chunk_audio.
AppendAudio(all_audio, chunk_audio) == all_audio \o chunk_audio

\* storage.read_file of chunk idx returns in the loop of lines 491-495: the
\* body is appended to all_audio; a StorageError becomes the 500 of lines
\* 505-512. After the last chunk all_audio is written.
FullConcatDone(r) ==
    /\ LoopFree
    /\ task[r].kind = "full"
    /\ task[r].pc = "concat"
    /\ \E o \in ReadOutcomes(get_storage_path(ChunkPath(task[r].page, task[r].idx))) :
        /\ faults' = faults - o.fault
        /\ IF ~o.ok
           THEN LeaveCriticalSection(r,
                    [task[r] EXCEPT !.pc = "failed", !.err = HTTP_500_INTERNAL_SERVER_ERROR])
           ELSE /\ task' = [task EXCEPT ![r] =
                    LET t == [task[r] EXCEPT !.all_audio = AppendAudio(@, o.body)]
                    IN  IF task[r].idx < Len(PageChunks(task[r].page))
                        THEN [t EXCEPT !.idx = @ + 1]
                        ELSE StartWrite(t)]
                /\ UNCHANGED <<fut, file_locks, locks>>
    /\ UNCHANGED <<store, API_SEMAPHORE, running, quota, rate_vars, page_vars, image_vars>>

\* storage.write_file of the full track returns (lines 498-501): the build
\* returns the path and len(all_audio); a StorageError becomes a 500.
FullWriteDone(r) ==
    /\ LoopFree
    /\ task[r].kind = "full"
    /\ task[r].pc = "write"
    /\ \/ /\ store' = Written(get_storage_path(task[r].path), task[r].all_audio)
          /\ LeaveCriticalSection(r,
                [task[r] EXCEPT !.pc = "done", !.size = Len(task[r].all_audio)])
          /\ UNCHANGED faults
       \/ /\ faults > 0
          /\ faults' = faults - 1
          /\ LeaveCriticalSection(r,
                [task[r] EXCEPT !.pc = "failed", !.err = HTTP_500_INTERNAL_SERVER_ERROR])
          /\ UNCHANGED store
    /\ UNCHANGED <<API_SEMAPHORE, running, quota, rate_vars, page_vars, image_vars>>

\* StorageClient._clean_path: the slashes at both ends of the path are
\* removed, that is, the empty components at both ends of the sequence.
RECURSIVE clean_path(_)
clean_path(path) ==
    IF path # << >> /\ Head(path) = "" THEN clean_path(Tail(path))
    ELSE IF path # << >> /\ path[Len(path)] = ""
    THEN clean_path(SubSeq(path, 1, Len(path) - 1))
    ELSE path

\* The key of the track where generate_or_get_full_audio keeps it.
StoragePathKey(audio_path) == clean_path(get_storage_path(audio_path))

\* get_page_audio_impl, line 844: storage.read_file(audio_path), with the
\* path generate_or_get_full_audio returned as the key.
ResponseKey(audio_path) == clean_path(audio_path)

\* The mp3 branch of get_page_audio_impl after generate_or_get_full_audio
\* has returned (lines 844-852): the track is read and sent with
\* Content-Length audio_size; a StorageError becomes the 500 of lines 899-907.
FullResponse(r) ==
    /\ LoopFree
    /\ task[r].kind = "full"
    /\ task[r].pc = "done"
    /\ task[r].status = 0
    /\ \E o \in ReadOutcomes(ResponseKey(task[r].path)) :
        /\ faults' = faults - o.fault
        /\ task' = [task EXCEPT ![r] =
                IF o.ok
                THEN [task[r] EXCEPT !.status = HTTP_200_OK, !.audio_bytes = o.body]
                ELSE [task[r] EXCEPT !.status = HTTP_500_INTERNAL_SERVER_ERROR,
                                     !.err = HTTP_500_INTERNAL_SERVER_ERROR]]
    /\ UNCHANGED <<fut, file_locks, locks, store, API_SEMAPHORE, running, quota, rate_vars, page_vars, image_vars>>

----------------------------------------------------------------------------
(* get_audio_metadata and the metadata branch of get_page_audio_impl *)

\* The audio files on the local disk, with their sizes. get_audio_path names
\* a file under the content directory, but the pipeline stores every
\* artifact through storage.write_file in the blob store and no code
\* creates a file in an audio directory: the directory holds no file.
LocalFiles == [p \in {} |-> 0]

os_path_exists(path) == path \in DOMAIN LocalFiles

os_path_getsize(path) == LocalFiles[path]

\* A flag that is set for every chunk.
AlwaysHasAudio(route, audio_path) == TRUE

\* Line 708 (get_audio_metadata) and line 886 (get_page_audio_impl): the
\* has_audio flag of the chunk whose audio path is audio_path.
has_audio(route, audio_path) ==
    IF route = "metadata"
    THEN os_path_exists(audio_path)
    ELSE os_path_exists(audio_path) /\ os_path_getsize(audio_path) > 0

MetadataRoutes == {"metadata", "page_audio"}

\* A metadata request passes rate_limiter and is answered: the page's chunks
\* with their has_audio flags. The handler awaits nothing of the store or
\* the provider and takes no lock.
MetadataRequest(r, route, slug) ==
    /\ LoopFree
    /\ NextCaller(r)
    /\ quota.metadata > 0
    /\ quota' = [quota EXCEPT !.metadata = @ - 1]
    /\ Admit
    /\ task' = [task EXCEPT ![r] =
            [IdleTask EXCEPT !.pc = "done", !.kind = route, !.page = slug,
                             !.status = HTTP_200_OK,
                             !.has_audio = [i \in 1..Len(PageChunks(slug)) |->
                                                has_audio(route, ChunkPath(slug, i))]]]
    /\ UNCHANGED <<fut, file_locks, locks, store, API_SEMAPHORE, running, faults, page_vars, image_vars>>

----------------------------------------------------------------------------
(* get_chunk_audio *)

NoChunk == 0

\* The chunk ids requests ask for: those split_content_into_chunks gives and
\* one it never gives.
ChunkIds == {"intro", "full_content", "appendix"}

\* A lookup that takes the page's first chunk whatever the id.
AnyChunk(slug, chunk_id) == IF Len(PageChunks(slug)) = 0 THEN NoChunk ELSE 1

\* Line 752: next((c for c in chunks if c["id"] == chunk_id), None), as the
\* index of the first chunk with that id.
FindChunk(slug, chunk_id) ==
    LET found == { i \in 1..Len(PageChunks(slug)) : PageChunks(slug)[i].id = chunk_id }
    IN  IF found = {} THEN NoChunk ELSE CHOOSE i \in found : \A j \in found : i <= j

\* Lines 753-755 and 766-767: the chunk is not found; HTTPException 404 is
\* raised and passed on before any generator is created.
ChunkNotFound(r, slug, chunk_id) ==
    /\ LoopFree
    /\ NextCaller(r)
    /\ quota.segments > 0
    /\ quota' = [quota EXCEPT !.segments = @ - 1]
    /\ Admit
    /\ task' = [task EXCEPT ![r] =
            [IdleTask EXCEPT !.pc = "failed", !.kind = "not_found", !.page = slug,
                             !.err = HTTP_404_NOT_FOUND, !.status = HTTP_404_NOT_FOUND]]
    /\ UNCHANGED <<fut, file_locks, locks, store, API_SEMAPHORE, running, faults, page_vars, image_vars>>

\* get_chunk_audio from line 741 on (the content directory of the model has
\* no nested page, so lines 733-739 do not redirect): the page is split, the
\* chunk looked up by id, and the generator for its audio path is streamed.
GetChunkAudio(r, slug, chunk_id) ==
    IF FindChunk(slug, chunk_id) = NoChunk
    THEN ChunkNotFound(r, slug, chunk_id)
    ELSE SegmentRequest(r, ChunkPath(slug, FindChunk(slug, chunk_id)))

----------------------------------------------------------------------------
(* Pages and the chunk splitter: _content.py _page, audio.py
   split_content_into_chunks and clean_text_for_tts.  A text is a sequence
   of one-character strings; positions are counted from 0 as in the code
   wherever a definition holds one. *)

\* Python's None.  It differs from every text.
None == <<"None">>

\* Whitespace, the class \s, over the characters of the documents of the model.
IsSpace(c) == c \in {" ", "\n"}

RECURSIVE lstrip(_)
lstrip(s) == IF s # << >> /\ IsSpace(Head(s)) THEN lstrip(Tail(s)) ELSE s

RECURSIVE rstrip(_)
rstrip(s) == IF s # << >> /\ IsSpace(s[Len(s)]) THEN rstrip(SubSeq(s, 1, Len(s) - 1)) ELSE s

\* str.strip()
strip(s) == rstrip(lstrip(s))

\* str.lower() and str.upper(), letter by letter.
LowerOf ==
    "A" :> "a" @@ "B" :> "b" @@ "C" :> "c" @@ "D" :> "d" @@ "E" :> "e" @@ "F" :> "f" @@ "G" :> "g" @@
       "H" :> "h" @@ "I" :> "i" @@ "J" :> "j" @@ "K" :> "k" @@ "L" :> "l" @@ "M" :> "m" @@ "N" :> "n" @@
       "O" :> "o" @@ "P" :> "p" @@ "Q" :> "q" @@ "R" :> "r" @@ "S" :> "s" @@ "T" :> "t" @@ "U" :> "u" @@
       "V" :> "v" @@ "W" :> "w" @@ "X" :> "x" @@ "Y" :> "y" @@ "Z" :> "z"

UpperOf ==
    "a" :> "A" @@ "b" :> "B" @@ "c" :> "C" @@ "d" :> "D" @@ "e" :> "E" @@ "f" :> "F" @@ "g" :> "G" @@
       "h" :> "H" @@ "i" :> "I" @@ "j" :> "J" @@ "k" :> "K" @@ "l" :> "L" @@ "m" :> "M" @@ "n" :> "N" @@
       "o" :> "O" @@ "p" :> "P" @@ "q" :> "Q" @@ "r" :> "R" @@ "s" :> "S" @@ "t" :> "T" @@ "u" :> "U" @@
       "v" :> "V" @@ "w" :> "W" @@ "x" :> "X" @@ "y" :> "Y" @@ "z" :> "Z"

lower(s) == [i \in 1..Len(s) |-> IF s[i] \in DOMAIN LowerOf THEN LowerOf[s[i]] ELSE s[i]]

\* str.title(): a letter that follows a letter is lowered, any other letter is raised.
title(s) ==
    [i \in 1..Len(s) |->
        LET cased(c) == c \in DOMAIN LowerOf \/ c \in DOMAIN UpperOf
        IN  IF i > 1 /\ cased(s[i - 1])
            THEN IF s[i] \in DOMAIN LowerOf THEN LowerOf[s[i]] ELSE s[i]
            ELSE IF s[i] \in DOMAIN UpperOf THEN UpperOf[s[i]] ELSE s[i]]

\* str.replace("-", " ")
DashesToSpaces(s) == [i \in 1..Len(s) |-> IF s[i] = "-" THEN " " ELSE s[i]]

\* The slug of the page that is split.
PageSlug == <<"g", "u", "i", "d", "e">>

\* _content.py _page, lines 19-30, without its cache.  The file has a front
\* matter block: frontmatter.loads gives its metadata and the body with the
\* surrounding whitespace stripped; a file without a title gets the slug,
\* title-cased.
LoadPage(file) ==
    [ title |-> IF file.title = None THEN title(DashesToSpaces(PageSlug)) ELSE file.title,
      description |-> file.description,
      body |-> strip(file.body) ]

\* _content.py line 12, lru_cache: the page of the cache if there is one
\* (cached_file_read at _filesystem.py line 11 memoizes the file the same way).
CachedPage == IF page_cache # << >> THEN page_cache[1] ELSE LoadPage(page_file)

\* The first position from i on that holds a newline, or the end of the text: "$".
RECURSIVE EndOfLine(_, _)
EndOfLine(s, i) == IF i > Len(s) \/ s[i] = "\n" THEN i ELSE EndOfLine(s, i + 1)

\* The first position from i on that holds no whitespace.
RECURSIVE SpaceEnd(_, _)
SpaceEnd(s, i) == IF i > Len(s) \/ ~IsSpace(s[i]) THEN i ELSE SpaceEnd(s, i + 1)

\* The first position from i on that holds no "#".
RECURSIVE HashEnd(_, _)
HashEnd(s, i) == IF i > Len(s) \/ s[i] # "#" THEN i ELSE HashEnd(s, i + 1)

NoMatch == [start |-> 0, group |-> 0, end |-> 0]

\* A match of ^<hashes>\s+(.+)$ in multi-line mode, the hashes being s[i..h-1]:
\* i starts a line, \s+ takes as much whitespace as leaves a character other
\* than a newline for the group, and the group runs to the end of its line.
HeadingMatch(s, i, h) ==
    LET starts == { p \in (h + 1)..SpaceEnd(s, h) : p <= Len(s) /\ s[p] # "\n" }
    IN  IF (i > 1 /\ s[i - 1] # "\n") \/ h > Len(s) \/ ~IsSpace(s[h]) \/ starts = {}
        THEN NoMatch
        ELSE LET p == CHOOSE q \in starts : \A o \in starts : o <= q
             IN  [start |-> i, group |-> p, end |-> EndOfLine(s, p)]

\* audio.py line 228, h2_pattern, tried at position i.
h2_pattern(s, i) ==
    IF i + 1 <= Len(s) /\ s[i] = "#" /\ s[i + 1] = "#" THEN HeadingMatch(s, i, i + 2) ELSE NoMatch

\* audio.py line 303, the pattern ^(#+)\s+(.+)$, tried at position i.
header_pattern(s, i) ==
    IF s[i] = "#" THEN HeadingMatch(s, i, HashEnd(s, i)) ELSE NoMatch

\* audio.py line 231, re.finditer: (m.start(), m.group(1).strip()) of every match.
RECURSIVE headings(_, _)
headings(s, i) ==
    IF i > Len(s) THEN << >>
    ELSE LET m == h2_pattern(s, i)
         IN  IF m # NoMatch
             THEN <<[start |-> m.start - 1, title |-> strip(SubSeq(s, m.group, m.end - 1))]>>
                  \o headings(s, m.end)
             ELSE headings(s, i + 1)

\* The pause that replaces the marker of a header.
Pause == <<".", " ", ".", " ", ".", " ", ".">>

\* audio.py line 303: every header becomes its text followed by the pause.
RECURSIVE ConvertHeaders(_, _)
ConvertHeaders(s, i) ==
    IF i > Len(s) THEN << >>
    ELSE LET m == header_pattern(s, i)
         IN  IF m # NoMatch
             THEN SubSeq(s, m.group, m.end - 1) \o Pause \o ConvertHeaders(s, m.end)
             ELSE <<s[i]>> \o ConvertHeaders(s, i + 1)

\* audio.py line 306: the markers **, *, __ and ^ are removed.
RECURSIVE RemoveEmphasis(_)
RemoveEmphasis(s) ==
    IF s = << >> THEN s
    ELSE IF s[1] \in {"*", "^"} THEN RemoveEmphasis(Tail(s))
    ELSE IF Len(s) >= 2 /\ s[1] = "_" /\ s[2] = "_" THEN RemoveEmphasis(Tail(Tail(s)))
    ELSE <<s[1]>> \o RemoveEmphasis(Tail(s))

\* audio.py line 318: every run of whitespace becomes one space.
RECURSIVE CollapseWhitespace(_)
CollapseWhitespace(s) ==
    IF s = << >> THEN s
    ELSE IF IsSpace(s[1])
    THEN <<" ">> \o CollapseWhitespace(SubSeq(s, SpaceEnd(s, 1), Len(s)))
    ELSE <<s[1]>> \o CollapseWhitespace(Tail(s))

\* audio.py lines 300-320.  The documents of the model hold no "[" and no
\* "`", so the substitutions of lines 309, 312 and 315 find nothing to replace.
clean_text_for_tts(text) == strip(CollapseWhitespace(RemoveEmphasis(ConvertHeaders(text, 1))))

\* audio.py line 224: runs of two or more newlines become two.
RECURSIVE NormalizeLineBreaks(_)
NormalizeLineBreaks(s) ==
    IF Len(s) < 3 THEN s
    ELSE IF s[1] = "\n" /\ s[2] = "\n" /\ s[3] = "\n" THEN NormalizeLineBreaks(Tail(s))
    ELSE <<s[1]>> \o NormalizeLineBreaks(Tail(s))

\* hashlib.md5(...).hexdigest(): the digest of a text, a value that is not the text.
md5(data) == <<"md5", data>>

\* The decimal digits of a natural number.
RECURSIVE Decimal(_)
Decimal(n) ==
    LET digit == <<"0", "1", "2", "3", "4", "5", "6", "7", "8", "9">>
    IN  IF n < 10 THEN <<digit[n + 1]>> ELSE Decimal(n \div 10) \o <<digit[(n % 10) + 1]>>

IntroId == <<"i", "n", "t", "r", "o">>
FullContentId == <<"f", "u", "l", "l", "_", "c", "o", "n", "t", "e", "n", "t">>

\* One id for every section.
SameSectionId(i) == <<"s", "e", "c", "t", "i", "o", "n", "_">>

\* audio.py line 272: f"section_{i}"
SectionId(i) == <<"s", "e", "c", "t", "i", "o", "n", "_">> \o Decimal(i)

\* The digest also covers the id of the chunk.
ChunkKeyedById(id, text, heading) ==
    [id |-> id, text |-> text, checksum |-> md5(id \o text), title |-> heading]

\* audio.py lines 248-256, 273-281, 288-295: a chunk; the checksum is the
\* digest of its clean text.  A chunk without a "title" key has title None.
Chunk(id, text, heading) ==
    [id |-> id, text |-> text, checksum |-> md5(text), title |-> heading]

\* audio.py lines 235-240
intro_prefix(page_title, description) ==
    (IF page_title # None /\ page_title # << >> THEN page_title \o <<".", " ">> ELSE << >>)
    \o (IF description # None /\ description # << >> /\ lower(description) # <<"n", "o", "n", "e">>
        THEN description \o <<" ">> ELSE << >>)
    \o <<"b", "y", " ", "E", "v", "a", "n", " ", "S", "i", "m", "s", ".", " ", ".", " ", ".", " ", ".", " ", ".", " ">>

\* audio.py lines 245-247: the text of the intro before it is cleaned.
IntroText(content, hs, prefix) == prefix \o strip(SubSeq(content, 1, hs[1].start))

\* audio.py lines 244-257: the intro, when the first heading is not at position 0.
Intro(content, hs, prefix) ==
    LET clean_intro == clean_text_for_tts(IntroText(content, hs, prefix))
    IN  IF hs[1].start > 0 /\ Len(clean_intro) >= 3
        THEN <<Chunk(IntroId, clean_intro, None)>> ELSE << >>

\* audio.py lines 262-265: the text from heading i (counted from 0) up to the
\* next heading, or the end of the content.
SectionText(content, hs, i) ==
    LET start == hs[i + 1].start
        end == IF i + 1 < Len(hs) THEN hs[i + 2].start ELSE Len(content)
    IN  strip(SubSeq(content, start + 1, end))

\* audio.py lines 259-281: the sections from heading i on.
RECURSIVE Sections(_, _, _)
Sections(content, hs, i) ==
    IF i >= Len(hs) THEN << >>
    ELSE LET section_text == SectionText(content, hs, i)
             clean_section == clean_text_for_tts(section_text)
         IN  (IF section_text # << >> /\ Len(clean_section) >= 3
              THEN <<Chunk(SectionId(i), clean_section, hs[i + 1].title)>> ELSE << >>)
             \o Sections(content, hs, i + 1)

\* audio.py lines 282-296: a document without h2 headings.
FullContent(content, prefix) ==
    LET clean_text == clean_text_for_tts(prefix \o strip(content))
    IN  IF strip(content) # << >> /\ Len(clean_text) >= 3
        THEN <<Chunk(FullContentId, clean_text, None)>> ELSE << >>

\* audio.py lines 223-297: split_content_into_chunks on a content already loaded.
SplitContent(raw, page_title, description) ==
    LET content == NormalizeLineBreaks(raw)
        hs == headings(content, 1)
        prefix == intro_prefix(page_title, description)
    IN  IF hs # << >>
        THEN Intro(content, hs, prefix) \o Sections(content, hs, 0)
        ELSE FullContent(content, prefix)

\* audio.py lines 207-216: split_content_into_chunks(content="", page_path=...).
split_content_into_chunks(page) ==
    SplitContent(page.body, page.title,
                 IF page.description # None /\ page.description # << >>
                 THEN page.description ELSE None)

\* A request that splits the page (audio.py lines 457, 697, 745 and 856).
SplitRequest ==
    /\ quota.splits > 0
    /\ quota' = [quota EXCEPT !.splits = @ - 1]
    /\ page_cache' = <<CachedPage>>
    /\ split_calls' = Append(split_calls,
                             [file |-> page_file, page |-> CachedPage,
                              chunks |-> split_content_into_chunks(CachedPage)])
    /\ UNCHANGED <<task, fut, file_locks, locks, store, API_SEMAPHORE, running, faults,
                   rate_vars, page_file, image_vars>>

\* The author saves another version of the markdown file.
EditFile(d) ==
    /\ quota.edits > 0
    /\ d # page_file
    /\ quota' = [quota EXCEPT !.edits = @ - 1]
    /\ page_file' = d
    /\ UNCHANGED <<task, fut, file_locks, locks, store, API_SEMAPHORE, running, faults,
                   rate_vars, page_cache, split_calls, image_vars>>

\* The document of the specification's example.
GuideDocument ==
    [ title |-> <<"G", "u", "i", "d", "e">>, description |-> None,
      body |-> <<"I", "n", "t", "r", "o", " ", "l", "i", "n", "e", ".", "\n", "\n", "#", "#", " ", "G", "e", "t", "t", "i", "n", "g", " ">> \o
              <<"S", "t", "a", "r", "t", "e", "d", "\n", "S", "t", "e", "p", " ", "o", "n", "e", ".", "\n", "\n">> \o
              <<"#", "#", " ", "C", "o", "n", "c", "l", "u", "s", "i", "o", "n", "\n", "D", "o", "n", "e", ".">> ]

\* The document of the page "echo": two sections with the same heading and
\* the same text, and nothing before the first heading.
EchoDocument ==
    [ title |-> <<"E", "c", "h", "o">>, description |-> None,
      body |-> <<"#", "#", " ", "N", "o", "t", "e", "\n", "S", "a", "m", "e", ".", "\n", "\n">> \o
              <<"#", "#", " ", "N", "o", "t", "e", "\n", "S", "a", "m", "e", ".">> ]

\* No page is split outside SpecSplit.
InitPage ==
    /\ page_file = GuideDocument
    /\ page_cache = << >>
    /\ split_calls = << >>

----------------------------------------------------------------------------
(* The image server (_images.py) *)

ImageCallers == 1..MaxImageRequests

\* The characters VALID_SLUG accepts that the model's slugs use.
SlugChars == {"a", "b", "c", "1", "-"}

\* VALID_SLUG, line 14: ^[a-z0-9-]{1,64}$
VALID_SLUG(slug) ==
    /\ Len(slug) \in 1..64
    /\ \A i \in 1..Len(slug) : slug[i] \in SlugChars

\* The slugs requested: two with an original in IMAGE_DIR, one without,
\* one that is not a valid slug.
RequestedSlugs == { <<"a", "1">>, <<"b">>, <<"c", "-">>, <<"A">> }

\* The slugs for which IMAGE_DIR.glob(slug + ".*") finds a file.
Originals == { <<"a", "1">>, <<"b">> }

IdleImage == [ pc |-> "idle", slug |-> << >>, fut |-> "none", status |-> 0 ]

\* The value of asyncio.Lock() in the argument of setdefault.
NewImageLock == [ made |-> FALSE, locked |-> FALSE, owner |-> NoCaller, waiters |-> << >> ]

\* Lock._wake_up_first on the futures of the image requests.
image_wake_up_first(ws, t) ==
    IF ws # << >> /\ t[Head(ws)].fut = "pending"
    THEN [t EXCEPT ![Head(ws)].fut = "done"]
    ELSE t

\* Lock.acquire without suspension: unlocked and every waiter cancelled.
ImageCanTake(lk) ==
    /\ ~lk.locked
    /\ \A i \in 1..Len(lk.waiters) : image_task[lk.waiters[i]].fut = "cancelled"

\* serve_image up to its first suspension (lines 17-38): validation, the
\* search for the original, then the outer "async with" on
\* locks.setdefault(slug, asyncio.Lock()) and, when that lock was free, the
\* inner "async with" on the same lock object locks[slug].  Where app.ctx
\* has no attribute locks, line 37 raises AttributeError (answered 500).
serve_image(r, slug) ==
    /\ image_task[r].pc = "idle"
    /\ \A q \in ImageCallers : q < r => image_task[q].pc # "idle"
    /\ IF ~VALID_SLUG(slug)
       THEN /\ image_task' = [image_task EXCEPT ![r] = [IdleImage EXCEPT !.pc = "done", !.slug = slug, !.status = 400]]
            /\ ctx_locks' = ctx_locks
       ELSE IF slug \notin Originals
       THEN /\ image_task' = [image_task EXCEPT ![r] = [IdleImage EXCEPT !.pc = "done", !.slug = slug, !.status = 404]]
            /\ ctx_locks' = ctx_locks
       ELSE IF ~ctx_has_locks
       THEN /\ image_task' = [image_task EXCEPT ![r] = [IdleImage EXCEPT !.pc = "done", !.slug = slug, !.status = 500]]
            /\ ctx_locks' = ctx_locks
       ELSE LET lk == ctx_locks[slug]
            IN  /\ ctx_locks' = [ctx_locks EXCEPT ![slug] =
                        IF ImageCanTake(lk)
                        THEN [lk EXCEPT !.made = TRUE, !.locked = TRUE, !.owner = r,
                                        !.waiters = Append(@, r)]
                        ELSE [lk EXCEPT !.made = TRUE, !.waiters = Append(@, r)]]
                /\ image_task' = [image_task EXCEPT ![r] =
                        [IdleImage EXCEPT !.pc = IF ImageCanTake(lk) THEN "inner" ELSE "outer",
                                          !.slug = slug, !.fut = "pending"]]
    /\ UNCHANGED <<task, fut, file_locks, locks, store, API_SEMAPHORE, running, faults, quota,
                   rate_vars, page_vars, ctx_has_locks>>

\* The client of r disconnects while r waits in lock.acquire(): the server
\* cancels the handler's task.
ImageDisconnect(r) ==
    /\ image_task[r].pc \in {"outer", "inner"}
    /\ image_task[r].fut \in {"pending", "done"}
    /\ image_task' = [image_task EXCEPT ![r].fut =
            IF image_task[r].fut = "pending" THEN "cancelled" ELSE "done_cancel"]
    /\ UNCHANGED <<task, fut, file_locks, locks, store, API_SEMAPHORE, running, faults, quota,
                   rate_vars, page_vars, ctx_has_locks, ctx_locks>>

\* r resumes in lock.acquire().  Cancelled: it removes its future, wakes the
\* next waiter if the lock is free and, if it waited in the inner
\* "async with", the outer one releases the lock.  Woken in the outer
\* "async with": it takes the lock and waits in the inner one (line 38).
\* Woken in the inner one: the critical section runs (lines 39-51), the
\* inner "async with" releases the lock and the release of the outer one
\* raises RuntimeError.
ImageResume(r) ==
    /\ image_task[r].pc \in {"outer", "inner"}
    /\ image_task[r].fut \in {"done", "cancelled", "done_cancel"}
    /\ LET slug == image_task[r].slug
           lk0 == [ctx_locks[slug] EXCEPT !.waiters = Remove(@, r)]
           t0 == [image_task EXCEPT ![r].fut = "none"]
           released == [lk0 EXCEPT !.locked = FALSE, !.owner = NoCaller]
       IN  IF image_task[r].fut # "done"
           THEN LET t1 == IF ~lk0.locked THEN image_wake_up_first(lk0.waiters, t0) ELSE t0
                IN  IF image_task[r].pc = "inner"
                    THEN /\ ctx_locks' = [ctx_locks EXCEPT ![slug] = released]
                         /\ image_task' = [image_wake_up_first(lk0.waiters, t1) EXCEPT ![r].pc = "cancelled"]
                    ELSE /\ ctx_locks' = [ctx_locks EXCEPT ![slug] = lk0]
                         /\ image_task' = [t1 EXCEPT ![r].pc = "cancelled"]
           ELSE IF image_task[r].pc = "outer"
           THEN /\ ctx_locks' = [ctx_locks EXCEPT ![slug] =
                        [lk0 EXCEPT !.locked = TRUE, !.owner = r, !.waiters = Append(@, r)]]
                /\ image_task' = [t0 EXCEPT ![r].pc = "inner", ![r].fut = "pending"]
           ELSE /\ ctx_locks' = [ctx_locks EXCEPT ![slug] = released]
                /\ image_task' = [image_wake_up_first(lk0.waiters, t0) EXCEPT
                                    ![r].pc = "done", ![r].status = 500]
    /\ UNCHANGED <<task, fut, file_locks, locks, store, API_SEMAPHORE, running, faults, quota,
                   rate_vars, page_vars, ctx_has_locks>>

\* No image is requested outside SpecImage.
InitImage ==
    /\ image_task = [r \in ImageCallers |-> IdleImage]
    /\ ctx_has_locks = FALSE
    /\ ctx_locks = [s \in Originals |-> NewImageLock]

----------------------------------------------------------------------------
(* The system *)

Init ==
    /\ task = [r \in Callers |-> IdleTask]
    /\ fut = [r \in Callers |-> "none"]
    /\ file_locks = [p \in AudioPaths |-> NoLock]
    /\ locks = [l \in LockIds |-> NewLock]
    /\ store = [k \in {} |-> Empty]
    /\ API_SEMAPHORE = SemaphoreSlots
    /\ running = NoCaller
    /\ faults = MaxFaults
    /\ quota = [segments |-> MaxRequests, builds |-> 0, metadata |-> 0, storage |-> 0,
                splits |-> 0, edits |-> 0]
    /\ rate_limit_data = [calls |-> 0, window_start |-> 0]
    /\ RATE_LIMIT_CALLS = DefaultRateLimitCalls
    /\ now = 0
    /\ InitPage
    /\ InitImage

\* The chunk paths segment requests ask for under Spec.
SegmentTargets == { ChunkPath("guide", i) : i \in 1..MaxTargets }

Next ==
    \/ \E r \in Callers, p \in SegmentTargets : SegmentRequest(r, p)
    \/ \E r \in Callers : AcquireResume(r)
    \/ \E r \in Callers : AcquireCancelled(r)
    \/ \E r \in Callers : SegmentReadDone(r)
    \/ \E r \in Callers : SegmentProviderDone(r)
    \/ \E r \in Callers : SegmentSleepDone(r)
    \/ \E r \in Callers : SegmentWriteDone(r)
    \/ \E r \in Callers : Resume(r)
    \/ \E r \in Callers : Close(r)
    \/ \E r \in Callers : CancelWaiter(r)
    \/ \E r \in Callers : CancelHolder(r)

Spec == Init /\ [][Next]_vars

InitBuild ==
    /\ task = [r \in Callers |-> IdleTask]
    /\ fut = [r \in Callers |-> "none"]
    /\ file_locks = [p \in AudioPaths |-> NoLock]
    /\ locks = [l \in LockIds |-> NewLock]
    /\ store = [k \in {} |-> Empty]
    /\ API_SEMAPHORE = SemaphoreSlots
    /\ running = NoCaller
    /\ faults = MaxBuildFaults
    /\ quota = [segments |-> MaxBuildSegments, builds |-> MaxBuilds, metadata |-> 0, storage |-> 0,
                splits |-> 0, edits |-> 0]
    /\ rate_limit_data = [calls |-> 0, window_start |-> 0]
    /\ RATE_LIMIT_CALLS = DefaultRateLimitCalls
    /\ now = 0
    /\ InitPage
    /\ InitImage

NextBuild ==
    \/ \E r \in Callers, p \in ChunkPaths : SegmentRequest(r, p)
    \/ \E r \in Callers : AcquireResume(r)
    \/ \E r \in Callers : AcquireCancelled(r)
    \/ \E r \in Callers : SegmentReadDone(r)
    \/ \E r \in Callers : SegmentProviderDone(r)
    \/ \E r \in Callers : SegmentSleepDone(r)
    \/ \E r \in Callers : SegmentWriteDone(r)
    \/ \E r \in Callers : Resume(r)
    \/ \E r \in Callers : Close(r)
    \/ \E r \in Callers : CancelWaiter(r)
    \/ \E r \in Callers : CancelHolder(r)
    \/ \E r \in Callers, s \in Pages : FullRequest(r, s)
    \/ \E r \in Callers, s \in Pages : GenerateAllRequest(r, s)
    \/ \E r \in Callers : ChunkStart(r)
    \/ \E r \in Callers : ChunkReadDone(r)
    \/ \E r \in Callers : ChunkProviderDone(r)
    \/ \E r \in Callers : ChunkWriteDone(r)
    \/ \E r \in Callers : FullReadDone(r)
    \/ \E r \in Callers : FullCheckDone(r)
    \/ \E r \in Callers : GatherDone(r)
    \/ \E r \in Callers : FullVerifyDone(r)
    \/ \E r \in Callers : FullConcatDone(r)
    \/ \E r \in Callers : FullWriteDone(r)

\* Segment requests, full-track builds and generate_all together.
SpecBuild == InitBuild /\ [][NextBuild]_vars

\* The pages requested under SpecSite: one chunk, and none.
SitePages == {"notes", "blank"}

InitSite ==
    /\ task = [r \in Callers |-> IdleTask]
    /\ fut = [r \in Callers |-> "none"]
    /\ file_locks = [p \in AudioPaths |-> NoLock]
    /\ locks = [l \in LockIds |-> NewLock]
    /\ store = [k \in {} |-> Empty]
    /\ API_SEMAPHORE = SemaphoreSlots
    /\ running = NoCaller
    /\ faults = MaxSiteFaults
    /\ quota = [segments |-> MaxSiteSegments, builds |-> MaxSiteBuilds,
                metadata |-> MaxSiteMetadata, storage |-> 0,
                splits |-> 0, edits |-> 0]
    /\ rate_limit_data = [calls |-> 0, window_start |-> 0]
    /\ RATE_LIMIT_CALLS = SiteRateLimitCalls
    /\ now = 0
    /\ InitPage
    /\ InitImage

NextSite ==
    \/ \E r \in Callers, s \in SitePages :
            \E i \in 1..Len(PageChunks(s)) : SegmentRequest(r, ChunkPath(s, i))
    \/ \E r \in Callers, s \in SitePages : FullRequest(r, s)
    \/ \E r \in Callers, k \in MetadataRoutes, s \in SitePages : MetadataRequest(r, k, s)
    \/ \E r \in Callers : RateLimited(r)
    \/ Tick
    \/ \E r \in Callers : AcquireResume(r)
    \/ \E r \in Callers : SegmentReadDone(r)
    \/ \E r \in Callers : SegmentProviderDone(r)
    \/ \E r \in Callers : SegmentSleepDone(r)
    \/ \E r \in Callers : SegmentWriteDone(r)
    \/ \E r \in Callers : Resume(r)
    \/ \E r \in Callers : ChunkStart(r)
    \/ \E r \in Callers : ChunkReadDone(r)
    \/ \E r \in Callers : ChunkProviderDone(r)
    \/ \E r \in Callers : ChunkWriteDone(r)
    \/ \E r \in Callers : FullReadDone(r)
    \/ \E r \in Callers : FullCheckDone(r)
    \/ \E r \in Callers : GatherDone(r)
    \/ \E r \in Callers : FullVerifyDone(r)
    \/ \E r \in Callers : FullConcatDone(r)
    \/ \E r \in Callers : FullWriteDone(r)

\* The audio app behind its rate limiter with a small RATE_LIMIT_CALLS:
\* segment, full-track and metadata requests over several windows.
SpecSite == InitSite /\ [][NextSite]_vars

\* Half a rate-limit window passes.
Elapse ==
    /\ now < MaxElapses * (RATE_LIMIT_WINDOW \div 2)
    /\ now' = now + (RATE_LIMIT_WINDOW \div 2)
    /\ UNCHANGED <<task, fut, file_locks, locks, store, API_SEMAPHORE, running, faults,
                   quota, rate_limit_data, RATE_LIMIT_CALLS, page_vars, image_vars>>

InitLimiter ==
    /\ task = [r \in Callers |-> IdleTask]
    /\ fut = [r \in Callers |-> "none"]
    /\ file_locks = [p \in AudioPaths |-> NoLock]
    /\ locks = [l \in LockIds |-> NewLock]
    /\ store = [k \in {} |-> Empty]
    /\ API_SEMAPHORE = SemaphoreSlots
    /\ running = NoCaller
    /\ faults = MaxLimiterFaults
    /\ quota = [segments |-> MaxLimiterSegments, builds |-> 0,
                metadata |-> MaxLimiterMetadata, storage |-> 0,
                splits |-> 0, edits |-> 0]
    /\ rate_limit_data = [calls |-> 0, window_start |-> 0]
    /\ RATE_LIMIT_CALLS = LimiterRateLimitCalls
    /\ now = 0
    /\ InitPage
    /\ InitImage

NextLimiter ==
    \/ \E r \in Callers, s \in SitePages, c \in ChunkIds : GetChunkAudio(r, s, c)
    \/ \E r \in Callers, k \in MetadataRoutes, s \in SitePages : MetadataRequest(r, k, s)
    \/ \E r \in Callers : RateLimited(r)
    \/ Elapse
    \/ \E r \in Callers : AcquireResume(r)
    \/ \E r \in Callers : SegmentReadDone(r)
    \/ \E r \in Callers : SegmentProviderDone(r)
    \/ \E r \in Callers : SegmentSleepDone(r)
    \/ \E r \in Callers : SegmentWriteDone(r)
    \/ \E r \in Callers : Resume(r)

\* The segment and metadata routes behind the rate limiter, with the clock
\* moving in steps of half a window.
SpecLimiter == InitLimiter /\ [][NextLimiter]_vars

InitStorage ==
    /\ task = [r \in Callers |-> IdleTask]
    /\ fut = [r \in Callers |-> "none"]
    /\ file_locks = [p \in AudioPaths |-> NoLock]
    /\ locks = [l \in LockIds |-> NewLock]
    /\ store = [k \in {} |-> Empty]
    /\ API_SEMAPHORE = SemaphoreSlots
    /\ running = NoCaller
    /\ faults = 0
    /\ quota = [segments |-> 0, builds |-> 0, metadata |-> 0, storage |-> MaxStorageCalls,
                splits |-> 0, edits |-> 0]
    /\ rate_limit_data = [calls |-> 0, window_start |-> 0]
    /\ RATE_LIMIT_CALLS = DefaultRateLimitCalls
    /\ now = 0
    /\ InitPage
    /\ InitImage

NextStorage ==
    \/ \E r \in Callers, op \in StorageOps : StorageCall(r, op)
    \/ \E r \in Callers : StorageResponse(r)
    \/ \E r \in Callers : StorageSleepDone(r)

\* Calls of the blob store client, one attempt at a time.
SpecStorage == InitStorage /\ [][NextStorage]_vars

----------------------------------------------------------------------------
(* The splitter alone: a page of a few lines, split and edited *)

\* The lines a body is made of.
LineForms ==
    { << >>,
      <<"a", "b">>,
      <<"#", "#", " ", "a">>,
      <<"#", "#">>,
      <<"#", " ", "a">>,
      <<"#", "#", "#", " ", "a">>,
      <<"*", "a", "*">>,
      <<"#", "#", " ", " ", "b", " ">> }

\* The bodies of at most n lines.
RECURSIVE Bodies(_)
Bodies(n) ==
    IF n = 1 THEN LineForms
    ELSE Bodies(n - 1) \cup { b \o <<"\n">> \o l : b \in Bodies(n - 1), l \in LineForms }

\* The markdown files of the model: front matter with or without a title and
\* a description (one of them the text "None"), and a body.
SplitDocuments ==
    [ title : {None, <<"T">>}, description : {None, <<"d">>, <<"N", "o", "n", "e">>},
      body : Bodies(MaxLines) ] \cup {GuideDocument}

\* The versions an edit may save.
Revisions ==
    { GuideDocument,
      [title |-> <<"T">>, description |-> None, body |-> <<"#", "#", " ", "a">>] }

InitSplit ==
    /\ task = [r \in Callers |-> IdleTask]
    /\ fut = [r \in Callers |-> "none"]
    /\ file_locks = [p \in AudioPaths |-> NoLock]
    /\ locks = [l \in LockIds |-> NewLock]
    /\ store = [k \in {} |-> Empty]
    /\ API_SEMAPHORE = SemaphoreSlots
    /\ running = NoCaller
    /\ faults = 0
    /\ quota = [segments |-> 0, builds |-> 0, metadata |-> 0, storage |-> 0,
                splits |-> MaxSplits, edits |-> MaxEdits]
    /\ rate_limit_data = [calls |-> 0, window_start |-> 0]
    /\ RATE_LIMIT_CALLS = DefaultRateLimitCalls
    /\ now = 0
    /\ page_file \in SplitDocuments
    /\ page_cache = << >>
    /\ split_calls = << >>
    /\ InitImage

NextSplit ==
    \/ SplitRequest
    \/ \E d \in Revisions : EditFile(d)

\* Requests that split one page while its file is edited.
SpecSplit == InitSplit /\ [][NextSplit]_vars

----------------------------------------------------------------------------
(* Full-track requests with their responses *)

InitTrack ==
    /\ task = [r \in Callers |-> IdleTask]
    /\ fut = [r \in Callers |-> "none"]
    /\ file_locks = [p \in AudioPaths |-> NoLock]
    /\ locks = [l \in LockIds |-> NewLock]
    /\ store = [k \in {} |-> Empty]
    /\ API_SEMAPHORE = SemaphoreSlots
    /\ running = NoCaller
    /\ faults = MaxTrackFaults
    /\ quota = [segments |-> MaxTrackSegments, builds |-> MaxTrackBuilds, metadata |-> 0,
                storage |-> 0,
                splits |-> 0, edits |-> 0]
    /\ rate_limit_data = [calls |-> 0, window_start |-> 0]
    /\ RATE_LIMIT_CALLS = DefaultRateLimitCalls
    /\ now = 0
    /\ InitPage
    /\ InitImage

\* The pages whose track is requested and the segment requested by itself.
TrackPages == {"notes"} \cup EchoPages
TrackTargets == { ChunkPath("echo", 1) }

NextTrack ==
    \/ \E r \in Callers, s \in TrackPages : FullRequest(r, s)
    \/ \E r \in Callers : FullResponse(r)
    \/ \E r \in Callers, p \in TrackTargets : SegmentRequest(r, p)
    \/ \E r \in Callers : SegmentReadDone(r)
    \/ \E r \in Callers : SegmentProviderDone(r)
    \/ \E r \in Callers : SegmentSleepDone(r)
    \/ \E r \in Callers : SegmentWriteDone(r)
    \/ \E r \in Callers : Resume(r)
    \/ \E r \in Callers : Close(r)
    \/ \E r \in Callers : AcquireResume(r)
    \/ \E r \in Callers : ChunkStart(r)
    \/ \E r \in Callers : ChunkReadDone(r)
    \/ \E r \in Callers : ChunkProviderDone(r)
    \/ \E r \in Callers : ChunkWriteDone(r)
    \/ \E r \in Callers : FullReadDone(r)
    \/ \E r \in Callers : FullCheckDone(r)
    \/ \E r \in Callers : GatherDone(r)
    \/ \E r \in Callers : FullVerifyDone(r)
    \/ \E r \in Callers : FullConcatDone(r)
    \/ \E r \in Callers : FullWriteDone(r)

\* Requests for the full track of a page, from the build to the response,
\* beside a request for one of its segments.
SpecTrack == InitTrack /\ [][NextTrack]_vars

----------------------------------------------------------------------------
(* The image server's requests *)

\* No statement of _images.py assigns app.ctx.locks: the attribute exists
\* only where the deployment has assigned a dict to it.
InitImageServer ==
    /\ task = [r \in Callers |-> IdleTask]
    /\ fut = [r \in Callers |-> "none"]
    /\ file_locks = [p \in AudioPaths |-> NoLock]
    /\ locks = [l \in LockIds |-> NewLock]
    /\ store = [k \in {} |-> Empty]
    /\ API_SEMAPHORE = SemaphoreSlots
    /\ running = NoCaller
    /\ faults = 0
    /\ quota = [segments |-> 0, builds |-> 0, metadata |-> 0, storage |-> 0,
                splits |-> 0, edits |-> 0]
    /\ rate_limit_data = [calls |-> 0, window_start |-> 0]
    /\ RATE_LIMIT_CALLS = DefaultRateLimitCalls
    /\ now = 0
    /\ InitPage
    /\ image_task = [r \in ImageCallers |-> IdleImage]
    /\ ctx_has_locks \in BOOLEAN
    /\ ctx_locks = [s \in Originals |-> NewImageLock]

NextImage ==
    \/ \E r \in ImageCallers, slug \in RequestedSlugs : serve_image(r, slug)
    \/ \E r \in ImageCallers : ImageDisconnect(r)
    \/ \E r \in ImageCallers : ImageResume(r)

\* Requests to the image server and the disconnections of their clients.
SpecImage == InitImageServer /\ [][NextImage]_vars

\* The scheduling of the event loop: a coroutine whose awaited operation can
\* complete is resumed, and a generator left at its yield is resumed by its
\* consumer or closed by the finalizer. Arrivals and cancellations are the
\* environment's and are not forced.
Fairness ==
    \A r \in Callers :
        /\ WF_vars(AcquireResume(r))
        /\ WF_vars(AcquireCancelled(r))
        /\ WF_vars(SegmentReadDone(r))
        /\ WF_vars(SegmentProviderDone(r))
        /\ WF_vars(SegmentSleepDone(r))
        /\ WF_vars(SegmentWriteDone(r))
        /\ WF_vars(Resume(r) \/ Close(r))

InitFair ==
    /\ task = [r \in Callers |-> IdleTask]
    /\ fut = [r \in Callers |-> "none"]
    /\ file_locks = [p \in AudioPaths |-> NoLock]
    /\ locks = [l \in LockIds |-> NewLock]
    /\ store = [k \in {} |-> Empty]
    /\ API_SEMAPHORE = SemaphoreSlots
    /\ running = NoCaller
    /\ faults = MaxFaults
    /\ quota = [segments |-> MaxFairRequests, builds |-> 0, metadata |-> 0, storage |-> 0,
                splits |-> 0, edits |-> 0]
    /\ rate_limit_data = [calls |-> 0, window_start |-> 0]
    /\ RATE_LIMIT_CALLS = DefaultRateLimitCalls
    /\ now = 0
    /\ InitPage
    /\ InitImage

\* Segment requests under the scheduling of the event loop.
FairSpec == InitFair /\ [][Next]_vars /\ Fairness

----------------------------------------------------------------------------
(* Builds under the scheduling of the event loop *)

\* The page built and the segment requested by itself under FairBuildSpec.
FairPages == {"notes"}
FairTargets == { ChunkPath("notes", 1) }

InitFairBuild ==
    /\ task = [r \in Callers |-> IdleTask]
    /\ fut = [r \in Callers |-> "none"]
    /\ file_locks = [p \in AudioPaths |-> NoLock]
    /\ locks = [l \in LockIds |-> NewLock]
    /\ store = [k \in {} |-> Empty]
    /\ API_SEMAPHORE = SemaphoreSlots
    /\ running = NoCaller
    /\ faults = MaxFairBuildFaults
    /\ quota = [segments |-> MaxFairSegments, builds |-> MaxFairBuilds, metadata |-> 0,
                storage |-> 0, splits |-> 0, edits |-> 0]
    /\ rate_limit_data = [calls |-> 0, window_start |-> 0]
    /\ RATE_LIMIT_CALLS = DefaultRateLimitCalls
    /\ now = 0
    /\ InitPage
    /\ InitImage

NextFairBuild ==
    \/ \E r \in Callers, p \in FairTargets : SegmentRequest(r, p)
    \/ \E r \in Callers, s \in FairPages : FullRequest(r, s)
    \/ \E r \in Callers, s \in FairPages : GenerateAllRequest(r, s)
    \/ \E r \in Callers : AcquireResume(r)
    \/ \E r \in Callers : AcquireCancelled(r)
    \/ \E r \in Callers : SegmentReadDone(r)
    \/ \E r \in Callers : SegmentProviderDone(r)
    \/ \E r \in Callers : SegmentSleepDone(r)
    \/ \E r \in Callers : SegmentWriteDone(r)
    \/ \E r \in Callers : Resume(r)
    \/ \E r \in Callers : Close(r)
    \/ \E r \in Callers : CancelWaiter(r)
    \/ \E r \in Callers : CancelHolder(r)
    \/ \E r \in Callers : ChunkStart(r)
    \/ \E r \in Callers : ChunkReadDone(r)
    \/ \E r \in Callers : ChunkProviderDone(r)
    \/ \E r \in Callers : ChunkWriteDone(r)
    \/ \E r \in Callers : FullReadDone(r)
    \/ \E r \in Callers : FullCheckDone(r)
    \/ \E r \in Callers : GatherDone(r)
    \/ \E r \in Callers : FullVerifyDone(r)
    \/ \E r \in Callers : FullConcatDone(r)
    \/ \E r \in Callers : FullWriteDone(r)

\* The event loop also runs the tasks of a gather and resumes a build when
\* the operation it awaits has completed.
BuildFairness ==
    /\ Fairness
    /\ \A r \in Callers :
        /\ WF_vars(ChunkStart(r))
        /\ WF_vars(ChunkReadDone(r))
        /\ WF_vars(ChunkProviderDone(r))
        /\ WF_vars(ChunkWriteDone(r))
        /\ WF_vars(FullReadDone(r))
        /\ WF_vars(FullCheckDone(r))
        /\ WF_vars(GatherDone(r))
        /\ WF_vars(FullVerifyDone(r))
        /\ WF_vars(FullConcatDone(r))
        /\ WF_vars(FullWriteDone(r))

\* Segment requests, full-track builds and generate_all under the
\* scheduling of the event loop.
FairBuildSpec == InitFairBuild /\ [][NextFairBuild]_vars /\ BuildFairness

----------------------------------------------------------------------------
(* Properties *)

Segments == { r \in Callers : task[r].kind = "segment" }

Received(r) == task[r].pc \in {"yielded", "done", "closed"}

RECURSIVE SumCalls(_)
SumCalls(S) ==
    IF S = {} THEN 0
    ELSE LET r == CHOOSE x \in S : TRUE IN task[r].calls + SumCalls(S \ {r})

\* The provider calls made so far for audio path p.
PathCalls(p) == SumCalls({ r \in Callers : task[r].path = p })

\* C1: at most one caller is inside the critical section of a path.
MutualExclusion ==
    \A r1, r2 \in Callers :
        (r1 # r2 /\ InCriticalSection(r1) /\ InCriticalSection(r2))
            => task[r1].path # task[r2].path

\* C2: when no request is cancelled and neither the provider nor the store
\* fails, the requests for one path cause exactly one provider call and
\* all receive the same bytes.
AtMostOneGeneration ==
    (faults = MaxFaults /\ \A r \in Callers : task[r].pc # "cancelled")
    => \A p \in ChunkPaths :
        /\ PathCalls(p) <= 1
        /\ \A r1, r2 \in Segments :
            (task[r1].path = p /\ task[r2].path = p /\ Received(r1) /\ Received(r2))
                => /\ task[r1].audio_bytes = task[r2].audio_bytes
                   /\ PathCalls(p) = 1

AtMostOneGenerationWitness ==
    /\ faults = MaxFaults
    /\ \A r \in Callers : task[r].pc # "cancelled"
    /\ \E r1, r2 \in Segments :
        /\ r1 # r2
        /\ task[r1].path = task[r2].path
        /\ Received(r1) /\ Received(r2)
        /\ task[r1].calls = 1 /\ task[r2].calls = 0

\* C3: the registry entry of a path is removed only when its lock is
\* unlocked with no waiter, so all callers holding or awaiting a lock for one
\* path refer to the same lock object.
RegistryRemovalSafe ==
    /\ [](\A r1, r2 \in Callers :
            (task[r1].lock # NoLock /\ task[r2].lock # NoLock
                /\ task[r1].path = task[r2].path)
            => task[r1].lock = task[r2].lock)
    /\ [][\A p \in AudioPaths :
            (file_locks[p] # NoLock /\ file_locks'[p] = NoLock)
            => /\ ~locks'[file_locks[p]].locked
               /\ locks'[file_locks[p]].waiters = << >>]_vars

\* C4: a lock stops being held by its holder only in a step in which that
\* holder leaves the critical section: no other caller releases it.
ReleasedByHolderOnly ==
    [][\A l \in LockIds :
        (locks[l].locked /\ locks[l].owner # NoCaller
            /\ (~locks'[l].locked \/ locks'[l].owner # locks[l].owner))
        => (task'[locks[l].owner].pc \notin CriticalPcs)]_vars

InFlight == Cardinality({ r \in Callers : task[r].pc = "call" })

\* The coroutines whose next step is a provider call: their audio is not in
\* the store and they are about to read it.
AboutToCall ==
    { r \in Callers :
        /\ task[r].kind \in {"segment", "chunk"}
        /\ task[r].pc = "read"
        /\ ~Present(get_storage_path(task[r].path)) }

RetrySuccess ==
    \A r \in Segments :
        (task[r].pc = "yielded" /\ task[r].calls = 3)
        => /\ task[r].err = 0
           /\ task[r].audio_bytes # Empty
           /\ Len(task[r].slept) = 2
           /\ Present(get_storage_path(task[r].path))
           /\ store[get_storage_path(task[r].path)] = task[r].audio_bytes

\* C8: a segment request whose three attempts all failed ends with the 503
\* of SynthesisUnavailable after exactly three provider calls, and no
\* request receives empty bytes.
RetryExhaustion ==
    \A r \in Segments :
        /\ task[r].pc = "failed"
            => /\ task[r].calls = max_retries
               /\ task[r].err = HTTP_503_SERVICE_UNAVAILABLE
        /\ Received(r) => task[r].audio_bytes # Empty

\* C9: the wait after failed attempt k is 2^(k-1), for k = 1 and 2 only;
\* there is no wait after the last attempt and never a fourth attempt.
BackoffSchedule ==
    \A r \in Segments :
        /\ \A k \in 1..Len(task[r].slept) : task[r].slept[k] = 2 ^ (k - 1)
        /\ Len(task[r].slept) <= 2
        /\ task[r].calls <= 3
        /\ Len(task[r].slept) <= task[r].calls
        /\ task[r].calls <= Len(task[r].slept) + 1
        /\ task[r].pc = "sleep" => Len(task[r].slept) = task[r].calls
        /\ task[r].pc = "failed" => (Len(task[r].slept) = 2 /\ task[r].calls = 3)

BackoffScheduleWitness ==
    \E r \in Segments : task[r].slept = <<1, 2>> /\ task[r].calls = 3

\* C10: no key of the blob store holds a zero-length body.
NoZeroLengthArtifact ==
    \A k \in DOMAIN store : Len(store[k]) > 0

\* C11: a request whose synthesis failed leaves the store as it was: the
\* step in which it fails writes nothing, a segment path never holds a
\* zero-length body, and what a segment path holds after a request for it
\* failed are the bytes another request for that path generated.
NoCachePollution ==
    /\ [](\A p \in ChunkPaths :
            Present(get_storage_path(p)) => store[get_storage_path(p)] # Empty)
    /\ [](\A r \in Callers :
            (task[r].kind \in {"segment", "chunk"} /\ task[r].pc = "failed"
                /\ Present(get_storage_path(task[r].path)))
            => \E q \in Callers \ {r} :
                /\ task[q].path = task[r].path
                /\ task[q].calls > 0
                /\ task[q].audio_bytes = store[get_storage_path(task[r].path)])
    /\ [][\A r \in Callers :
            (task[r].pc = "call" /\ task'[r].pc = "failed") => store' = store]_vars

\* A segment request failed on all three attempts and its path is missing.
NoCachePollutionWitness ==
    \E r \in Segments :
        /\ task[r].pc = "failed"
        /\ task[r].calls = max_retries
        /\ ~Present(get_storage_path(task[r].path))

\* The key of the i-th segment of a page, and of its full track.
ChunkKey(slug, i) == get_storage_path(ChunkPath(slug, i))
FullKey(slug) == get_storage_path(FullPath(slug))

\* The stored artifacts of the first n segments of a page, concatenated in
\* segment order, and the sum of their lengths.
RECURSIVE StoredTrack(_, _)
StoredTrack(slug, n) ==
    IF n = 0 THEN Empty ELSE StoredTrack(slug, n - 1) \o store[ChunkKey(slug, n)]

RECURSIVE StoredLength(_, _)
StoredLength(slug, n) ==
    IF n = 0 THEN 0 ELSE StoredLength(slug, n - 1) + Len(store[ChunkKey(slug, n)])

Builds == { r \in Callers : task[r].kind = "full" }

\* C13: the step that writes the full track of a page writes the
\* concatenation, in segment order, of the segment artifacts the store then
\* holds, and the build returns the sum of their lengths.
TrackIsConcatenation ==
    [][\A r \in Builds :
        (task[r].pc = "write" /\ task'[r].pc = "done")
        => LET slug == task[r].page
               n == Len(PageChunks(slug))
           IN  /\ \A i \in 1..n : Present(ChunkKey(slug, i))
               /\ store'[FullKey(slug)] = StoredTrack(slug, n)
               /\ task'[r].size = StoredLength(slug, n)]_vars

FailureLeavesNoTrack ==
    /\ [](\A r \in Builds :
            (\E q \in Children(r) : task[q].pc = "failed")
                => /\ task[r].pc \in {"gather", "failed"}
                   /\ task[r].pc = "failed" => task[r].err = HTTP_500_INTERNAL_SERVER_ERROR)
    /\ [][store' = store \/ \A s \in Pages :
            (Present(FullKey(s))' # Present(FullKey(s))
                \/ (Present(FullKey(s)) /\ store'[FullKey(s)] # store[FullKey(s)]))
            => \E r \in Builds :
                /\ task[r].page = s
                /\ task[r].pc = "write"
                /\ \A q \in Children(r) : task[q].pc = "done"]_vars

\* A build failed after one of its chunk tasks failed, while a segment of
\* the page is stored.
FailureLeavesNoTrackWitness ==
    \E r \in Builds :
        /\ task[r].pc = "failed"
        /\ \E q \in Children(r) : task[q].pc = "failed"
        /\ \E i \in 1..Len(PageChunks(task[r].page)) : Present(ChunkKey(task[r].page, i))

\* C16: once a segment path holds a non-empty artifact, no step starts a
\* provider call for that path and no step changes the stored bytes.
CachedIsTerminal ==
    [][\A p \in ChunkPaths :
        (Present(get_storage_path(p)) /\ store[get_storage_path(p)] # Empty)
        => /\ store'[get_storage_path(p)] = store[get_storage_path(p)]
           /\ \A r \in Callers :
                (task'[r].path = p /\ task'[r].pc = "call") => task[r].pc = "call"]_vars

\* C20: a segment request whose generation failed has not had a success
\* response started: the status its caller received is the status of the
\* error the generator raised.
GenerationErrorReachesCaller ==
    \A r \in Segments :
        task[r].pc = "failed"
            => /\ task[r].status # HTTP_200_OK
               /\ task[r].status = task[r].err

\* C12: no cache read accepts an empty body: a request that leaves a cache
\* read with a result (the generator yields the cached bytes, the chunk task
\* returns, the build returns the cached track) has read a non-empty body,
\* and a build's per-segment check schedules generation for an empty body.
EmptyBodyIsMissing ==
    [][\A r \in Callers :
        /\ (task[r].pc = "read" /\ task'[r].pc \in {"yielded", "done"})
            => /\ Present(get_storage_path(task[r].path))
               /\ store[get_storage_path(task[r].path)] # Empty
        /\ (/\ task[r].pc = "check"
            /\ task'[r] # task[r]
            /\ task'[r].pc \in {"check", "gather", "verify"}
            /\ task[r].idx \notin task'[r].pending)
            => /\ Present(ChunkKey(task[r].page, task[r].idx))
               /\ store[ChunkKey(task[r].page, task[r].idx)] # Empty]_vars

\* The provider calls started so far: those that returned and those in flight.
CallsStarted == SumCalls(Callers) + InFlight

\* C17: while the first rate-limit window lasts, no more than
\* RATE_LIMIT_CALLS provider calls have been started.
CallRateWithinLimit ==
    (rate_limit_data.window_start = 0 /\ now <= RATE_LIMIT_WINDOW)
        => CallsStarted <= RATE_LIMIT_CALLS

\* The metadata requests answered.
MetadataAnswers == { r \in Callers : task[r].kind \in MetadataRoutes }

\* A non-zero-length artifact is stored for the i-th segment of the page.
HasArtifact(slug, i) == Present(ChunkKey(slug, i)) /\ store[ChunkKey(slug, i)] # Empty

\* C18: the answer to a metadata request reports has_audio true for exactly
\* the segments with a non-zero-length artifact: false for every segment
\* when nothing has been generated, true for every segment when a full-track
\* build of the page has succeeded.
MetadataFollowsBuild ==
    [][\A r \in Callers :
        (task[r].pc = "idle" /\ task'[r].kind \in MetadataRoutes)
        => LET slug == task'[r].page
               n == Len(PageChunks(slug))
           IN  /\ \A i \in 1..n : task'[r].has_audio[i] <=> HasArtifact(slug, i)
               /\ DOMAIN store = {} => \A i \in 1..n : ~task'[r].has_audio[i]
               /\ (\E b \in Builds : task[b].page = slug /\ task[b].pc = "done")
                    => \A i \in 1..n : task'[r].has_audio[i]]_vars

\* C19: every metadata request is answered with success: status 200, no
\* error, no provider call and no generation task of its own; it reports one
\* flag per segment, and has_audio false for each segment without an
\* artifact in the store.
MetadataNeverFails ==
    \A r \in MetadataAnswers :
        /\ task[r].pc = "done"
        /\ task[r].status = HTTP_200_OK
        /\ task[r].err = 0
        /\ task[r].calls = 0
        /\ Children(r) = {}
        /\ Len(task[r].has_audio) = Len(PageChunks(task[r].page))
        /\ \A i \in 1..Len(PageChunks(task[r].page)) :
                ~Present(ChunkKey(task[r].page, i)) => ~task[r].has_audio[i]

\* A metadata request for "notes" was answered, the segment of "notes" has
\* no artifact, and a generation for the page has failed.
MetadataNeverFailsWitness ==
    \E r \in MetadataAnswers :
        /\ task[r].page = "notes"
        /\ ~Present(ChunkKey("notes", 1))
        /\ \E q \in Callers : task[q].pc = "failed" /\ task[q].err # 0

\* The coroutines that generate one segment: get_or_generate_audio and
\* generate_chunk_audio.
Generators == { r \in Callers : task[r].kind \in {"segment", "chunk"} }

\* C22: generate_chunk_audio generates a segment as get_or_generate_audio
\* does: every provider call in flight holds a slot of API_SEMAPHORE, a
\* generation gives up only after max_retries provider calls, and a
\* generation that obtained bytes from the provider does not fail.
SameSegmentGeneration ==
    /\ API_SEMAPHORE + InFlight = SemaphoreSlots
    /\ \A r \in Generators :
            task[r].pc = "failed" => task[r].calls = max_retries /\ task[r].audio_bytes = Empty

\* The generate-all requests.
GenerateAlls == { r \in Callers : task[r].kind = "generate_all" }

\* C24: a generate-all request that is answered with success reports
\* has_audio true for every segment, every segment then has a non-empty
\* artifact and every generation task has returned; a generation task makes
\* at most one provider call, and starts it only when its segment path has
\* no artifact.
GenerateAllBuildsMissing ==
    /\ [](\A r \in GenerateAlls :
            task[r].pc = "done"
                => /\ task[r].status = HTTP_200_OK
                   /\ \A q \in Children(r) : task[q].pc = "done" /\ task[q].calls <= 1
                   /\ \A i \in 1..Len(PageChunks(task[r].page)) :
                        task[r].has_audio[i] /\ HasArtifact(task[r].page, i))
    /\ [][\A q \in Callers :
            (task[q].kind = "chunk" /\ task[q].pc = "read" /\ task'[q].pc = "call")
                => ~Present(get_storage_path(task[q].path))]_vars

\* A request arrives in this step and r is its coroutine.
Arrives(r) == task[r].pc = "idle" /\ task'[r].pc # "idle" /\ task'[r].parent = NoCaller

RequestRateLimited ==
    /\ [](rate_limit_data.calls <= RATE_LIMIT_CALLS)
    /\ [][/\ \A r \in Callers :
                Arrives(r) =>
                    IF task'[r].kind = "rejected"
                    THEN /\ task'[r].status = HTTP_429_TOO_MANY_REQUESTS
                         /\ now - rate_limit_data.window_start <= RATE_LIMIT_WINDOW
                         /\ rate_limit_data.calls = RATE_LIMIT_CALLS
                         /\ rate_limit_data' = rate_limit_data
                         /\ task'[r].lock = NoLock
                         /\ UNCHANGED <<file_locks, locks, fut, store, API_SEMAPHORE, running>>
                    ELSE \/ /\ now - rate_limit_data.window_start <= RATE_LIMIT_WINDOW
                            /\ rate_limit_data.calls < RATE_LIMIT_CALLS
                            /\ rate_limit_data' =
                                    [rate_limit_data EXCEPT !.calls = @ + 1]
                         \/ /\ now - rate_limit_data.window_start > RATE_LIMIT_WINDOW
                            /\ rate_limit_data' = [calls |-> 1, window_start |-> now]
          /\ rate_limit_data' # rate_limit_data => \E r \in Callers : Arrives(r)]_vars

\* A request was answered 429 and a later window has started.
RequestRateLimitedWitness ==
    /\ \E r \in Callers : task[r].kind = "rejected"
    /\ rate_limit_data.window_start > 0

\* The calls of the blob store client.
StorageCalls == { r \in Callers : task[r].kind \in StorageOps }

\* The last answer a call has got.
LastResponse(r) == task[r].responses[Len(task[r].responses)]

\* C23: a read_file or write_file call makes at most 3 attempts; every answer
\* but the last was a 503 or a network error and was followed by a sleep,
\* of 1 and then 2 seconds; the call has returned exactly when its last
\* answer is 200, it has raised exactly when its last answer is a status
\* other than 200 and 503, or a 503 or network error on the third attempt,
\* and it sleeps before another attempt exactly when its last answer is a
\* 503 or network error on the first or second attempt.
StorageRetryPolicy ==
    \A r \in StorageCalls :
        LET n == Len(task[r].responses)
        IN  /\ n <= 3
            /\ task[r].calls = n
            /\ \A i \in 1..(n - 1) : task[r].responses[i] \in {503, RequestError}
            /\ task[r].pc = "request"
                => n = task[r].attempt /\ task[r].slept = SubSeq(<<1, 2>>, 1, n)
            /\ task[r].pc # "request"
                => /\ n = task[r].attempt + 1
                   /\ task[r].pc = "done" <=> LastResponse(r) = 200
                   /\ task[r].pc = "sleep"
                        <=> (LastResponse(r) \in {503, RequestError} /\ n < 3)
                   /\ task[r].pc = "failed"
                        <=> (LastResponse(r) \notin {200, 503, RequestError}
                             \/ (LastResponse(r) \in {503, RequestError} /\ n = 3))
                   /\ task[r].pc = "sleep" => task[r].slept = SubSeq(<<1, 2>>, 1, n)
                   /\ task[r].pc \in {"done", "failed"}
                        => task[r].slept = SubSeq(<<1, 2>>, 1, n - 1)

\* A read returned on its third attempt after a 503 and a network error, and
\* a write raised on a 503 at its third attempt.
StorageRetryPolicyWitness ==
    /\ \E r \in StorageCalls :
        /\ task[r].kind = "read_file"
        /\ task[r].pc = "done"
        /\ task[r].responses = <<503, RequestError, 200>>
    /\ \E r \in StorageCalls :
        /\ task[r].kind = "write_file"
        /\ task[r].pc = "failed"
        /\ task[r].responses = <<RequestError, 503, 503>>

----------------------------------------------------------------------------
(* The chunk splitter *)

\* C21: the segment list of every request is computed from the page's file
\* as it is at the time of the request: when the file changed since an
\* earlier request, the ids, texts and checksums are those of the changed
\* content, not of a copy memoized before.
SegmentsFollowDocument ==
    \A k \in 1..Len(split_calls) :
        split_calls[k].chunks = split_content_into_chunks(LoadPage(split_calls[k].file))

\* C26: for a document with at least one level-2 heading, the intro (the
\* attribution prefix followed by the text before the first heading) is the
\* first segment whenever its sanitized text has 3 characters or more, also
\* when the first heading starts the body, and it is left out only when the
\* sanitized text is shorter.
IntroEmitted ==
    \A k \in 1..Len(split_calls) :
        LET call == split_calls[k]
            content == NormalizeLineBreaks(call.page.body)
            hs == headings(content, 1)
            text == clean_text_for_tts(
                        IntroText(content, hs, intro_prefix(call.page.title, call.page.description)))
        IN  hs # << >> =>
                IF Len(text) >= 3
                THEN /\ call.chunks # << >>
                     /\ call.chunks[1].id = IntroId
                     /\ call.chunks[1].text = text
                ELSE \A i \in 1..Len(call.chunks) : call.chunks[i].id # IntroId

\* C27: the segments of a split come in document order and have pairwise
\* distinct ids: the segment of the text before the first heading has id
\* "intro" and comes first, the section of the i-th level-2 heading (from 0)
\* has id "section_<i>", the title of that heading and the text of that
\* section, and follows only the intro and earlier sections; a document
\* without level-2 headings gives at most one segment, "full_content".
SegmentIdsInOrder ==
    \A k \in 1..Len(split_calls) :
        LET call == split_calls[k]
            chunks == call.chunks
            content == NormalizeLineBreaks(call.page.body)
            hs == headings(content, 1)
            IsSection(c, h) ==
                /\ c.id = <<"s", "e", "c", "t", "i", "o", "n", "_">> \o Decimal(h)
                /\ c.title = hs[h + 1].title
                /\ c.text = clean_text_for_tts(SectionText(content, hs, h))
        IN  /\ \A i, j \in 1..Len(chunks) : i # j => chunks[i].id # chunks[j].id
            /\ hs = << >> =>
                   /\ Len(chunks) <= 1
                   /\ \A i \in 1..Len(chunks) : chunks[i].id = <<"f", "u", "l", "l", "_", "c", "o", "n", "t", "e", "n", "t">>
            /\ hs # << >> =>
                   \A i \in 1..Len(chunks) :
                       \/ /\ i = 1
                          /\ chunks[i].id = <<"i", "n", "t", "r", "o">>
                          /\ chunks[i].title = None
                          /\ hs[1].start > 0
                       \/ \E h \in 0..(Len(hs) - 1) :
                              /\ IsSection(chunks[i], h)
                              /\ \A j \in 1..(i - 1) :
                                     \/ j = 1 /\ chunks[j].id = <<"i", "n", "t", "r", "o">>
                                     \/ \E g \in 0..(h - 1) : IsSection(chunks[j], g)

\* A page with text before its first heading and two sections was split.
SegmentIdsInOrderWitness ==
    \E k \in 1..Len(split_calls) :
        LET chunks == split_calls[k].chunks
        IN  /\ Len(chunks) = 3
            /\ chunks[1].id = <<"i", "n", "t", "r", "o">>
            /\ chunks[2].id = <<"s", "e", "c", "t", "i", "o", "n", "_">> \o <<"0">>
            /\ chunks[3].id = <<"s", "e", "c", "t", "i", "o", "n", "_">> \o <<"1">>
            /\ chunks[2].title # chunks[3].title

GuideExample ==
    \A k \in 1..Len(split_calls) :
        split_calls[k].page = LoadPage(GuideDocument) =>
            LET chunks == split_calls[k].chunks
            IN  /\ Len(chunks) = 3
                /\ chunks[1].id = <<"i", "n", "t", "r", "o">>
                /\ chunks[2].id = <<"s", "e", "c", "t", "i", "o", "n", "_">> \o <<"0">>
                /\ chunks[2].title = <<"G", "e", "t", "t", "i", "n", "g", " ", "S", "t", "a", "r", "t", "e", "d">>
                /\ chunks[2].text =
                       <<"G", "e", "t", "t", "i", "n", "g", " ", "S", "t", "a", "r", "t", "e", "d">>
                       \o <<" ", ".", " ", ".", " ", ".", " ", ".", " ", "S", "t", "e", "p", " ", "o", "n", "e", ".">>
                /\ chunks[3].id = <<"s", "e", "c", "t", "i", "o", "n", "_">> \o <<"1">>
                /\ chunks[3].title = <<"C", "o", "n", "c", "l", "u", "s", "i", "o", "n">>
                /\ chunks[3].text =
                       <<"C", "o", "n", "c", "l", "u", "s", "i", "o", "n">>
                       \o <<" ", ".", " ", ".", " ", ".", " ", ".", " ", "D", "o", "n", "e", ".">>

----------------------------------------------------------------------------
(* Builds, slots and the registry *)

\* The positions of a build that did not find the full track in the store.
BuildingPcs == {"check", "gather", "verify", "concat", "write"}

\* C31: while no request is cancelled and neither the store nor the provider
\* fails, the builds of one page are single-flight: a build misses the
\* cached track (and goes on to split, concatenate and write) only when no
\* other build of that page is building or has returned; a full track is
\* written only by a build at its write; and the builds of a page that have
\* returned report the same size, the length of the stored track.
SingleFlightBuild ==
    /\ [](faults = MaxSiteFaults =>
            \A r \in Builds :
                task[r].pc = "done"
                => /\ Present(FullKey(task[r].page))
                   /\ task[r].size = Len(store[FullKey(task[r].page)])
                   /\ \A q \in Builds :
                        (task[q].page = task[r].page /\ task[q].pc = "done")
                            => task[q].size = task[r].size)
    /\ [][faults' = MaxSiteFaults =>
            \A r \in Builds :
                (task[r].pc = "read" /\ task'[r].pc \in BuildingPcs)
                => \A q \in Builds \ {r} :
                    task[q].page = task[r].page
                        => task[q].pc \notin BuildingPcs \cup {"done"}]_vars

\* Two builds of "notes" have returned the same size: one generated the
\* segment through a chunk task, the other started no task.
SingleFlightBuildWitness ==
    /\ faults = MaxSiteFaults
    /\ \E r1, r2 \in Builds :
        /\ task[r1].page = "notes" /\ task[r2].page = "notes"
        /\ task[r1].pc = "done" /\ task[r2].pc = "done"
        /\ Children(r1) # {} /\ Children(r2) = {}
        /\ task[r1].size = task[r2].size
        /\ task[r1].size > 0

\* C32: a segment request that yields bytes after a cache miss has stored
\* them: in the step in which its write_file call ends and it yields, the
\* store holds exactly the yielded bytes at the segment's storage path.
SuccessImpliesCached ==
    [][\A r \in Segments :
        (task[r].pc = "write" /\ task'[r].pc = "yielded")
        => /\ get_storage_path(task[r].path) \in DOMAIN store'
           /\ store'[get_storage_path(task[r].path)] = task'[r].audio_bytes]_vars

\* C33: the response to a full-track request reads the track from the key
\* the build wrote it to: when the store does not fail, the step that
\* answers a request whose build returned a track that is not empty
\* answers 200 with the stored track as its body, and the length of the
\* body is the size reported.
TrackKeyConsistent ==
    [][\A r \in Builds :
        (/\ task[r].pc = "done" /\ task[r].status = 0 /\ task[r].size > 0
         /\ task'[r].status # 0 /\ faults' = faults)
        => /\ task'[r].status = HTTP_200_OK
           /\ task'[r].audio_bytes = store[StoragePathKey(task[r].path)]
           /\ Len(task'[r].audio_bytes) = task[r].size]_vars

----------------------------------------------------------------------------
(* The image server *)

\* C37: a serve_image request that reaches the optimization pipeline never
\* waits for a lock that the same request holds.
ImagePipelineTerminates ==
    \A r \in ImageCallers :
        image_task[r].pc = "inner" => ctx_locks[image_task[r].slug].owner # r

----------------------------------------------------------------------------
(* The synthesis slots *)

\* C38: a segment request holds a slot of API_SEMAPHORE exactly while its
\* provider call is in flight: the free slots are the 3 slots less the calls
\* in flight, so a request that sleeps between attempts or writes to the
\* store holds none and with no call in flight all 3 are free; and the lock
\* the request acquired stays locked from its first attempt to its write.
SlotPerAttempt ==
    /\ API_SEMAPHORE = SemaphoreSlots - Cardinality({ r \in Segments : task[r].pc = "call" })
    /\ \A r \in Segments : task[r].pc \in {"call", "sleep", "write"}
            => /\ task[r].lock # NoLock
               /\ locks[task[r].lock].locked

----------------------------------------------------------------------------
(* The registry of locks *)

\* C39: whenever no coroutine holds or awaits the lock of any path,
\* file_locks has no entry.
NoRegistryLeak ==
    (\A r \in Callers : task[r].lock = NoLock)
        => \A p \in AudioPaths : file_locks[p] = NoLock

\* A holder left by an error, a waiter left by a cancellation and a request
\* ran to its end; nothing is held or awaited and the registry is empty.
NoRegistryLeakWitness ==
    /\ \A r \in Callers : task[r].lock = NoLock
    /\ \A p \in AudioPaths : file_locks[p] = NoLock
    /\ \E r \in Segments : task[r].pc = "failed"
    /\ \E r \in Segments : task[r].pc = "cancelled"
    /\ \E r \in Segments : task[r].pc = "done"

----------------------------------------------------------------------------
(* The tasks of a failed build *)

\* C36: once a full-track build has raised and left file_lock, none of the
\* generation tasks it started is still running: each has returned or raised.
NoOrphanGeneration ==
    \A r \in Builds :
        task[r].pc = "failed" => \A q \in Children(r) : task[q].pc \in {"done", "failed"}

----------------------------------------------------------------------------
(* Segments with the same text *)

EchoPath == ChunkPath("echo", 1)

\* C35: the two sections of the page "echo" have the same clean text and so
\* one audio path; while neither the provider nor the store fails, the
\* provider is called at most once for that path, and a build of the page
\* that gathered generation tasks and returned has seen exactly one call,
\* made by at most one of its tasks, and has stored the artifact twice over
\* as the track.
SharedArtifact ==
    /\ LET chunks == split_content_into_chunks(LoadPage(EchoDocument))
       IN  /\ Len(chunks) = Len(PageChunks("echo"))
           /\ chunks[1].id # chunks[2].id
           /\ chunks[1].checksum = chunks[2].checksum
    /\ ChunkPath("echo", 2) = EchoPath
    /\ faults = MaxTrackFaults =>
        /\ PathCalls(EchoPath) <= 1
        /\ \A r \in Builds :
            (task[r].page = "echo" /\ task[r].pc = "done" /\ Children(r) # {})
            => /\ PathCalls(EchoPath) = 1
               /\ Present(ChunkKey("echo", 1))
               /\ Present(FullKey("echo"))
               /\ store[FullKey("echo")] = store[ChunkKey("echo", 1)] \o store[ChunkKey("echo", 1)]
               /\ task[r].size = 2 * Len(store[ChunkKey("echo", 1)])

\* A build of "echo" has returned after its first task called the provider
\* and its second task found the artifact.
SharedArtifactWitness ==
    /\ faults = MaxTrackFaults
    /\ \E r \in Builds :
        /\ task[r].page = "echo"
        /\ task[r].pc = "done"
        /\ task[r].size > 0
        /\ \E q1, q2 \in Children(r) :
            /\ q1 < q2
            /\ task[q1].pc = "done" /\ task[q1].calls = 1
            /\ task[q2].pc = "done" /\ task[q2].calls = 0

----------------------------------------------------------------------------
(* Progress of every request *)

\* The positions of a coroutine that has ended: returned, raised, closed by
\* its consumer or cancelled.
EndedPcs == {"done", "failed", "closed", "cancelled"}

\* C34: when the provider calls, the store calls and the consumers return,
\* every segment request, generate_all request and full-track request, and
\* every task they started, eventually ends: from some moment on no
\* coroutine waits for a lock, a slot or anything else.
EveryRequestCompletes ==
    <>[](\A r \in Callers : task[r].pc \in EndedPcs \cup {"idle"})

\* Two builds and a segment request for the page's only segment have come
\* and every coroutine has ended: a build stored a track, a generate_all
\* answered, the segment request was served, and a task found the artifact
\* another coroutine had generated.
EveryRequestCompletesWitness ==
    /\ quota.segments = 0
    /\ quota.builds = 0
    /\ \A r \in Callers : task[r].pc \in EndedPcs \cup {"idle"}
    /\ \E r \in Callers : task[r].kind = "full" /\ task[r].pc = "done" /\ task[r].size > 0
    /\ \E r \in Callers : task[r].kind = "generate_all" /\ task[r].pc = "done"
    /\ \E r \in Callers : task[r].kind = "segment" /\ task[r].pc = "done"
    /\ \E r \in Callers : task[r].kind = "chunk" /\ task[r].pc = "done" /\ task[r].calls = 0

====
